---- MODULE Spec2Model ----
(***************************************************************************)
(* Model of the fantasy-scoring engine (pipeline/utils.py), the hard-coded *)
(* waiver-wire scoring tables (analysis/waiver_wire.py and                 *)
(* data/analysis/waiver_wire.py), the VORP calculator and the matchup      *)
(* projector.                                                              *)
(*                                                                         *)
(* Units.  Stat values are integers (yards, counts).  Weights and points   *)
(* are held in thousandths of a fantasy point, so 0.05 points per yard is  *)
(* 50 and a 1-point bonus is 1000.  round(x, 2) is Round2, which returns   *)
(* hundredths of a point: 7.00 is 700.                                     *)
(***************************************************************************)
EXTENDS Integers, Sequences, FiniteSets, TLC

VARIABLES
    row,        \* utils: the stat row handed to calculate_fantasy_points
    pos,        \* utils: the pos argument ("" stands for None / empty)
    scoring,    \* utils: which scoring.json the run loads (a key of ScoringFiles)
    result,     \* utils: what calculate_fantasy_points returned or raised
    earlier,    \* utils: the calls made before this one, with what they returned
    wcsv,       \* waiver_wire: the CSV's one row, as its differences from all-zero
    wres,       \* waiver_wire: fantasy_points_custom of that row, per script
    vstats,     \* vorp_calculator: last_season_stats, players per kind
    vrepl,      \* vorp_calculator: replacement_value chosen for each position
    vreport,    \* vorp_calculator: the records of vorp_analysis.json
    mseason,    \* matchup_analyzer: season_df, a set of scored game lines
    mschedule,  \* matchup_analyzer: upcoming_games
    mreport,    \* matchup_analyzer: matchup_report.json
    cgames,     \* consistency_analyzer: game lines per player and kind
    creport,    \* consistency_analyzer: the players of consistency_report.json
    tplayers,   \* draft_tier_generator: relevant_players, players per kind
    tiers,      \* draft_tier_generator: the tiers printed for each position
    adf,        \* apply_scoring: the caller's DataFrame, a sequence of rows
    aout,       \* apply_scoring: what the call returned or raised
    penv,       \* fetch_players: the environment variables SWID and ESPN_S2
    pmain,      \* fetch_players: main's locals, the two output files, its return
    ptry,       \* fetch_players: try_private's locals and the requests it made
    eenv,       \* fetch_espn: LEAGUE_ID, SEASON, ESPN_SWID and ESPN_S2 of the environment
    emain,      \* fetch_espn: where main is, what it raised, latest.json and status.json
    uenv,       \* fetch_espn_public: LEAGUE_ID, ESPN_SWID and ESPN_S2 of the environment
    umain,      \* fetch_espn_public: main's manifest, the attempt_fetch calls made, the files
    lview       \* fetch_league: fetch_view_resilient's tries, loop position and requests

scoreVars == <<row, pos, scoring, result, earlier>>
waiverVars == <<wcsv, wres>>
vorpVars == <<vstats, vrepl, vreport>>

matchupVars == <<mseason, mschedule, mreport>>

consistencyVars == <<cgames, creport>>
tierVars == <<tplayers, tiers>>
applyVars == <<adf, aout>>
playersVars == <<penv, pmain, ptry>>
espnVars == <<eenv, emain>>
publicVars == <<uenv, umain>>
leagueVars == <<lview>>

\* the variables of apply_scoring and of the fetch scripts
fetchVars == <<applyVars, playersVars, espnVars, publicVars, leagueVars>>

otherThanScore ==
    <<waiverVars, vorpVars, matchupVars, consistencyVars, tierVars, fetchVars>>
otherThanWaiver ==
    <<scoreVars, vorpVars, matchupVars, consistencyVars, tierVars, fetchVars>>
otherThanVorp ==
    <<scoreVars, waiverVars, matchupVars, consistencyVars, tierVars, fetchVars>>
otherThanMatchup ==
    <<scoreVars, waiverVars, vorpVars, consistencyVars, tierVars, fetchVars>>
otherThanTiers ==
    <<scoreVars, waiverVars, vorpVars, matchupVars, consistencyVars, fetchVars>>
otherThanConsistency ==
    <<scoreVars, waiverVars, vorpVars, matchupVars, tierVars, fetchVars>>

(***************************************************************************)
(* Values of a row cell: a number, NaN / None, or a non-numeric string.    *)
(***************************************************************************)
Num(n) == [t |-> "num", v |-> n, s |-> ""]
NaN == [t |-> "nan", v |-> 0, s |-> ""]
Str(x) == [t |-> "str", v |-> 0, s |-> x]

(***************************************************************************)
(* What a call produced: a value, or the exception it raised.              *)
(***************************************************************************)
Ok(n) == [err |-> "none", v |-> n]
Raise(e) == [err |-> e, v |-> 0]
NotCalled == [err |-> "notcalled", v |-> 0]
IsOk(r) == r.err = "none"

\* a + b evaluated left to right: the first exception wins
Plus(a, b) == IF ~IsOk(a) THEN a ELSE IF ~IsOk(b) THEN b ELSE Ok(a.v + b.v)

RECURSIVE SumFrom(_, _)
SumFrom(terms, i) ==
    IF i > Len(terms) THEN Ok(0)
    ELSE IF ~IsOk(terms[i]) THEN terms[i]
    ELSE Plus(terms[i], SumFrom(terms, i + 1))

\* pts = t1; pts += t2; ... in statement order
SumTerms(terms) == SumFrom(terms, 1)

\* d[k] of a Python dict: KeyError when the key is missing
HasKey(d, k) == k \in DOMAIN d

\* x * d[k]
Times(x, d, k) == IF HasKey(d, k) THEN Ok(x * d[k]) ELSE Raise("KeyError")

\* d.get(k, 0.0)
GetOr0(d, k) == IF HasKey(d, k) THEN d[k] ELSE 0

(***************************************************************************)
(* _g: the first alias that is in the row, is not NaN and converts to      *)
(* float; the default 0.0 when there is none.                              *)
(***************************************************************************)
RECURSIVE GFrom(_, _, _, _)
GFrom(r, names, i, default) ==
    IF i > Len(names) THEN default
    ELSE IF names[i] \in DOMAIN r /\ r[names[i]].t = "num" THEN r[names[i]].v
    ELSE GFrom(r, names, i + 1, default)

\* the getter with a default of 1.0 instead of 0.0
_g_default_one(r, names) == GFrom(r, names, 1, 1)

_g(r, names) == GFrom(r, names, 1, 0)

ALIAS == [
    pass_yds |-> <<"passing_yards", "pass_yards", "py", "pass_yds">>,
    pass_tds |-> <<"passing_tds", "pass_tds", "passing_touchdowns">>,
    pass_int |-> <<"interceptions", "interceptions_thrown", "pass_interceptions">>,
    two_pt_pass |-> <<"two_point_pass", "pass_2pt", "two_pt_pass", "passing_2pt_conversions">>,
    rush_yds |-> <<"rushing_yards", "rush_yards", "ry", "rush_yds">>,
    rush_tds |-> <<"rushing_tds", "rush_tds", "rushing_touchdowns">>,
    two_pt_rush |-> <<"two_point_rush", "rush_2pt", "two_pt_rush", "rushing_2pt_conversions">>,
    rush_fd |-> <<"rushing_first_downs", "rush_first_downs", "first_down_rush">>,
    rec |-> <<"receptions", "rec", "recs">>,
    rec_yds |-> <<"receiving_yards", "rec_yards", "rey", "rec_yds">>,
    rec_tds |-> <<"receiving_tds", "rec_tds", "receiving_touchdowns">>,
    two_pt_rec |-> <<"two_point_receive", "rec_2pt", "two_pt_rec", "receiving_2pt_conversions">>,
    rec_fd |-> <<"receiving_first_downs", "rec_first_downs", "first_down_rec", "first_down_receiving">>,
    fumbles_lost |-> <<"fumbles_lost", "fumlost", "fumbles_lost_offense">>,
    kr_td |-> <<"kick_return_tds", "kret_td", "kick_return_td">>,
    pr_td |-> <<"punt_return_tds", "pret_td", "punt_return_td">>,
    int_ret_td |-> <<"int_return_td", "interception_return_td">>,
    fum_ret_td |-> <<"fumble_return_td">>,
    blk_kick_ret_td |-> <<"blocked_kick_return_td", "blocked_punt_fg_return_td">>,
    two_pt_ret |-> <<"two_pt_return", "def_two_pt_return">>,
    one_pt_safety |-> <<"one_pt_safety", "one_point_safety">>,
    pat_made |-> <<"pat_made", "xp_made", "extra_points_made">>,
    fg_miss |-> <<"fg_missed", "field_goals_missed">>,
    fg_0_39 |-> <<"fgm_0_39", "fg_made_0_39">>,
    fg_40_49 |-> <<"fgm_40_49", "fg_made_40_49">>,
    fg_50_59 |-> <<"fgm_50_59", "fg_made_50_59">>,
    fg_60_plus |-> <<"fgm_60_plus", "fg_made_60_plus", "fg_made_60_plus_yards">>,
    dst_sacks |-> <<"def_sacks", "sacks", "team_def_sacks">>,
    dst_int |-> <<"def_interceptions", "interceptions_def", "team_def_interceptions">>,
    dst_fr |-> <<"def_fumbles_recovered", "fumbles_recovered_def", "team_def_fumbles_rec">>,
    dst_safety |-> <<"def_safeties", "safeties", "team_def_safeties">>,
    dst_block |-> <<"def_blocked_kicks", "blocked_kicks", "team_def_blocks">>,
    points_allowed |-> <<"points_allowed", "pa_def", "def_points_allowed">>,
    yards_allowed |-> <<"yards_allowed", "ya_def", "def_yards_allowed">>,
    dst_kr_td |-> <<"def_kick_return_td", "def_kick_return_tds">>,
    dst_pr_td |-> <<"def_punt_return_td", "def_punt_return_tds">>,
    dst_int_ret_td |-> <<"def_int_return_td", "def_interception_td">>,
    dst_fum_ret_td |-> <<"def_fumble_return_td">>,
    dst_blk_kick_ret_td |-> <<"def_blocked_kick_return_td">>
]

(***************************************************************************)
(* str.upper() on the position strings of the model.                       *)
(***************************************************************************)
Upper(x) ==
    CASE x = "dst" -> "DST"
      [] x = "k" -> "K"
      [] x = "qb" -> "QB"
      [] x = "wr" -> "WR"
      [] x = "nan" -> "NAN"
      [] OTHER -> x

PosColumns == <<"pos", "position", "player_position", "fantasy_position">>

RECURSIVE DetectFrom(_, _)
DetectFrom(r, i) ==
    IF i > Len(PosColumns) THEN "FLEX"
    ELSE IF /\ PosColumns[i] \in DOMAIN r
            /\ r[PosColumns[i]].t = "str"
            /\ r[PosColumns[i]].s # ""
         THEN Upper(r[PosColumns[i]].s)
    ELSE DetectFrom(r, i + 1)

\* the detector with DST as the answer for a row that names no position
detect_pos_default_dst(r) ==
    IF DetectFrom(r, 1) = "FLEX" THEN "DST" ELSE DetectFrom(r, 1)

detect_pos(r) == DetectFrom(r, 1)

(***************************************************************************)
(* Core calculators.  s["offense"]["passing"] and the like raise KeyError  *)
(* when a section is missing.                                              *)
(***************************************************************************)
Section(s, a, b) ==
    IF HasKey(s, a) /\ HasKey(s[a], b) THEN Ok(0) ELSE Raise("KeyError")

\* passing with the yardage bonus paid from 300 yards
_score_passing_bonus_from_300(r, s) ==
    IF ~IsOk(Section(s, "offense", "passing")) THEN Raise("KeyError")
    ELSE LET p == s["offense"]["passing"]
             yards == _g(r, ALIAS.pass_yds)
         IN  SumTerms(<<
                Times(yards, p, "yards_per"),
                Times(_g(r, ALIAS.pass_tds), p, "td"),
                Times(_g(r, ALIAS.pass_int), p, "int"),
                Times(_g(r, ALIAS.two_pt_pass), p, "two_pt"),
                Ok(IF yards >= 300 THEN GetOr0(p, "bonus_400_plus_yards") ELSE 0)
             >>)

_score_passing(r, s) ==
    IF ~IsOk(Section(s, "offense", "passing")) THEN Raise("KeyError")
    ELSE LET p == s["offense"]["passing"]
             yards == _g(r, ALIAS.pass_yds)
         IN  SumTerms(<<
                Times(yards, p, "yards_per"),
                Times(_g(r, ALIAS.pass_tds), p, "td"),
                Times(_g(r, ALIAS.pass_int), p, "int"),
                Times(_g(r, ALIAS.two_pt_pass), p, "two_pt"),
                Ok(IF yards >= 400 THEN GetOr0(p, "bonus_400_plus_yards") ELSE 0)
             >>)

_score_rushing(r, s) ==
    IF ~IsOk(Section(s, "offense", "rushing")) THEN Raise("KeyError")
    ELSE LET rr == s["offense"]["rushing"]
             yards == _g(r, ALIAS.rush_yds)
         IN  SumTerms(<<
                Times(yards, rr, "yards_per"),
                Times(_g(r, ALIAS.rush_tds), rr, "td"),
                Times(_g(r, ALIAS.two_pt_rush), rr, "two_pt"),
                Times(_g(r, ALIAS.rush_fd), rr, "first_down"),
                Ok(IF 100 <= yards /\ yards < 200
                   THEN GetOr0(rr, "bonus_100_to_199_yards") ELSE 0)
             >>)

_score_receiving(r, s) ==
    IF ~IsOk(Section(s, "offense", "receiving")) THEN Raise("KeyError")
    ELSE LET rc == s["offense"]["receiving"]
             yards == _g(r, ALIAS.rec_yds)
         IN  SumTerms(<<
                Times(yards, rc, "yards_per"),
                Times(_g(r, ALIAS.rec), rc, "reception"),
                Times(_g(r, ALIAS.rec_tds), rc, "td"),
                Times(_g(r, ALIAS.two_pt_rec), rc, "two_pt"),
                Times(_g(r, ALIAS.rec_fd), rc, "first_down"),
                Ok(IF yards >= 200 THEN GetOr0(rc, "bonus_200_plus_yards") ELSE 0)
             >>)

_score_turnovers_and_returns(r, s) ==
    IF ~HasKey(s, "offense") THEN Raise("KeyError")
    ELSE LET o == s["offense"]
         IN  Plus(
               IF HasKey(o, "turnovers")
               THEN Times(_g(r, ALIAS.fumbles_lost), o["turnovers"], "fumbles_lost")
               ELSE Raise("KeyError"),
               IF ~HasKey(o, "returns") THEN Raise("KeyError")
               ELSE LET rt == o["returns"]
                    IN  SumTerms(<<
                          Times(_g(r, ALIAS.kr_td), rt, "kick_return_td"),
                          Times(_g(r, ALIAS.pr_td), rt, "punt_return_td"),
                          Times(_g(r, ALIAS.int_ret_td), rt, "int_return_td"),
                          Times(_g(r, ALIAS.fum_ret_td), rt, "fumble_return_td"),
                          Times(_g(r, ALIAS.blk_kick_ret_td), rt, "blocked_kick_return_td"),
                          Times(_g(r, ALIAS.two_pt_ret), rt, "two_pt_return"),
                          Times(_g(r, ALIAS.one_pt_safety), rt, "one_pt_safety")
                        >>))

_score_kicker(r, s) ==
    IF ~HasKey(s, "kicking") THEN Raise("KeyError")
    ELSE LET k == s["kicking"]
         IN  SumTerms(<<
                Times(_g(r, ALIAS.pat_made), k, "pat_made"),
                Times(_g(r, ALIAS.fg_miss), k, "fg_miss"),
                Times(_g(r, ALIAS.fg_0_39), k, "fg_0_39"),
                Times(_g(r, ALIAS.fg_40_49), k, "fg_40_49"),
                Times(_g(r, ALIAS.fg_50_59), k, "fg_50_59"),
                Times(_g(r, ALIAS.fg_60_plus), k, "fg_60_plus")
             >>)

(***************************************************************************)
(* _bucket_score.  A bucket is a dict with optional "min" and "max" and a  *)
(* "points" entry.  With neither bound the first test compares the value   *)
(* with None, which raises TypeError; b["points"] of a matching bucket     *)
(* without points raises KeyError.                                         *)
(***************************************************************************)
BucketPoints(b) == IF HasKey(b, "points") THEN Ok(b["points"]) ELSE Raise("KeyError")

RECURSIVE BucketFrom(_, _, _)
BucketFrom(value, buckets, i) ==
    IF i > Len(buckets) THEN Ok(0)
    ELSE LET b == buckets[i]
             hasMn == HasKey(b, "min")
             hasMx == HasKey(b, "max")
         IN  IF ~hasMn /\ ~hasMx THEN Raise("TypeError")
             ELSE IF ~hasMn /\ value <= b["max"] THEN BucketPoints(b)
             ELSE IF ~hasMx /\ value >= b["min"] THEN BucketPoints(b)
             ELSE IF hasMn /\ hasMx /\ b["min"] <= value /\ value <= b["max"]
                  THEN BucketPoints(b)
             ELSE BucketFrom(value, buckets, i + 1)

_bucket_score(value, buckets) == BucketFrom(value, buckets, 1)

_score_dst(r, s) ==
    IF ~HasKey(s, "dst") THEN Raise("KeyError")
    ELSE LET d == s["dst"]
             events == SumTerms(<<
                Times(_g(r, ALIAS.dst_sacks), d, "sack"),
                Times(_g(r, ALIAS.dst_block), d, "block"),
                Times(_g(r, ALIAS.dst_int), d, "interception"),
                Times(_g(r, ALIAS.dst_fr), d, "fumble_recovery"),
                Times(_g(r, ALIAS.dst_safety), d, "safety")
             >>)
             returns ==
                IF ~HasKey(d, "return_tds") THEN Raise("KeyError")
                ELSE LET rt == d["return_tds"]
                     IN  SumTerms(<<
                            Times(_g(r, ALIAS.dst_kr_td), rt, "kickoff"),
                            Times(_g(r, ALIAS.dst_pr_td), rt, "punt"),
                            Times(_g(r, ALIAS.dst_int_ret_td), rt, "interception"),
                            Times(_g(r, ALIAS.dst_fum_ret_td), rt, "fumble"),
                            Times(_g(r, ALIAS.dst_blk_kick_ret_td), rt, "blocked_kick")
                         >>)
             pa == _g(r, ALIAS.points_allowed)
             ya == _g(r, ALIAS.yards_allowed)
         IN  SumTerms(<<
                events,
                returns,
                IF HasKey(d, "points_allowed")
                THEN _bucket_score(pa, d["points_allowed"]) ELSE Raise("KeyError"),
                IF HasKey(d, "yards_allowed")
                THEN _bucket_score(ya, d["yards_allowed"]) ELSE Raise("KeyError")
             >>)

(***************************************************************************)
(* round(x, 2) of a value held in thousandths, as hundredths: ties go to   *)
(* the even hundredth, as Python's round does for an exact tie.            *)
(***************************************************************************)
Round2(m) ==
    LET q == m \div 10
        rem == m % 10
    IN  IF rem < 5 THEN q
        ELSE IF rem > 5 THEN q + 1
        ELSE IF q % 2 = 0 THEN q ELSE q + 1

RoundRes(x) == IF IsOk(x) THEN Ok(Round2(x.v)) ELSE x

\* (pos or detect_pos(row)).upper()
PositionOf(r, p) == Upper(IF p # "" THEN p ELSE detect_pos(r))

\* the skill path with pts starting from what an earlier call returned
\* instead of 0.0
calculate_fantasy_points_carrying(r, p, s) ==
    LET position == PositionOf(r, p)
        carried == IF earlier = {} THEN 0
                   ELSE (CHOOSE e \in earlier : \A o \in earlier : o.result.v <= e.result.v).result.v
    IN  IF position = "DST" THEN RoundRes(_score_dst(r, s))
        ELSE IF position = "K" THEN RoundRes(_score_kicker(r, s))
        ELSE RoundRes(SumTerms(<<
                Ok(10 * carried),
                _score_passing(r, s),
                _score_rushing(r, s),
                _score_receiving(r, s),
                _score_turnovers_and_returns(r, s)
             >>))

calculate_fantasy_points(r, p, s) ==
    LET position == PositionOf(r, p)
    IN  IF position = "DST" THEN RoundRes(_score_dst(r, s))
        ELSE IF position = "K" THEN RoundRes(_score_kicker(r, s))
        ELSE RoundRes(SumTerms(<<
                _score_passing(r, s),
                _score_rushing(r, s),
                _score_receiving(r, s),
                _score_turnovers_and_returns(r, s)
             >>))

(***************************************************************************)
(* Scoring rules of the runs.  scoring.json is not part of the sources, so *)
(* the rules are inputs.  LeagueScoring carries the weights and the        *)
(* points-allowed table that the analysis scripts hard-code; the others    *)
(* are the same rules with an entry left out or a table changed.           *)
(***************************************************************************)
LeaguePointsAllowed == <<
    [min |-> 0, max |-> 0, points |-> 5000],
    [min |-> 1, max |-> 6, points |-> 4000],
    [min |-> 7, max |-> 13, points |-> 3000],
    [min |-> 14, max |-> 17, points |-> 1000],
    [min |-> 18, max |-> 27, points |-> 0],
    [min |-> 28, max |-> 34, points |-> -1000],
    [min |-> 35, max |-> 45, points |-> -3000],
    [min |-> 46, points |-> -5000] >>

LeagueYardsAllowed == <<
    [max |-> 99, points |-> 5000],
    [min |-> 100, max |-> 349, points |-> 2000],
    [min |-> 350, points |-> -3000] >>

LeagueScoring == [
    offense |-> [
        passing |-> [yards_per |-> 50, td |-> 4000, int |-> -2000, two_pt |-> 2000,
                     bonus_400_plus_yards |-> 1000],
        rushing |-> [yards_per |-> 100, td |-> 6000, two_pt |-> 2000, first_down |-> 1000,
                     bonus_100_to_199_yards |-> 1000],
        receiving |-> [yards_per |-> 100, reception |-> 1000, td |-> 6000, two_pt |-> 2000,
                       first_down |-> 500, bonus_200_plus_yards |-> 1000],
        turnovers |-> [fumbles_lost |-> -2000],
        returns |-> [kick_return_td |-> 6000, punt_return_td |-> 6000,
                     int_return_td |-> 6000, fumble_return_td |-> 6000,
                     blocked_kick_return_td |-> 6000, two_pt_return |-> 2000,
                     one_pt_safety |-> 1000]],
    kicking |-> [pat_made |-> 1000, fg_miss |-> -1000, fg_0_39 |-> 3000,
                 fg_40_49 |-> 4000, fg_50_59 |-> 5000, fg_60_plus |-> 6000],
    dst |-> [sack |-> 1000, block |-> 2000, interception |-> 2000,
             fumble_recovery |-> 2000, safety |-> 2000,
             return_tds |-> [kickoff |-> 6000, punt |-> 6000, interception |-> 6000,
                             fumble |-> 6000, blocked_kick |-> 6000],
             points_allowed |-> LeaguePointsAllowed,
             yards_allowed |-> LeagueYardsAllowed]]

\* a dict without one of its keys
Without(d, k) == [x \in DOMAIN d \ {k} |-> d[x]]

\* the league rules whose rushing table has no bonus entry
NoBonusScoring ==
    [LeagueScoring EXCEPT !["offense"]["rushing"] =
        Without(LeagueScoring["offense"]["rushing"], "bonus_100_to_199_yards")]

\* the league rules whose passing table has no touchdown weight
NoWeightScoring ==
    [LeagueScoring EXCEPT !["offense"]["passing"] =
        Without(LeagueScoring["offense"]["passing"], "td")]

\* a league that does not score yards allowed: one bucket, no bounds, 0 points
OpenBucketScoring ==
    [LeagueScoring EXCEPT !["dst"]["yards_allowed"] = <<[points |-> 0]>>]

\* a league with no yards-allowed table and 0.025 points per passing yard
PlainScoring ==
    [LeagueScoring EXCEPT !["dst"]["yards_allowed"] = << >>,
                          !["offense"]["passing"]["yards_per"] = 25]

\* the scoring.json files of the runs, by name
ScoringFiles == [
    league |-> LeagueScoring,
    no_bonus |-> NoBonusScoring,
    no_weight |-> NoWeightScoring,
    open_bucket |-> OpenBucketScoring,
    plain |-> PlainScoring]

\* load_scoring: the dictionary the file holds
load_scoring(file) == ScoringFiles[file]

(***************************************************************************)
(* The rows of the runs: at most MaxFields populated columns, each with a  *)
(* value from FieldVals.                                                   *)
(***************************************************************************)
MaxFields == 3

RowFields == {"passing_yards", "pass_yards", "rushing_yards", "receiving_yards",
              "interceptions", "def_interceptions", "sacks", "points_allowed",
              "yards_allowed", "fg_missed", "position"}

FieldVals(f) ==
    CASE f = "passing_yards" -> {Num(0), Num(400), NaN}
      [] f = "pass_yards" -> {Num(25)}
      [] f = "rushing_yards" -> {Num(0), Num(150), Num(250)}
      [] f = "receiving_yards" -> {Num(0), Num(200)}
      [] f = "interceptions" -> {Num(0), Num(1)}
      [] f = "def_interceptions" -> {Num(1)}
      [] f = "sacks" -> {Num(0), Num(2), Str("n/a")}
      [] f = "points_allowed" -> {Num(0), Num(1), Num(6), Num(13), Num(20), NaN}
      [] f = "yards_allowed" -> {Num(0), Num(350)}
      [] f = "fg_missed" -> {Num(1)}
      [] f = "position" -> {Str("dst"), Str("k"), Str("")}

\* "nan" is str() of a missing position cell, as apply_scoring passes it
PosArgs == {"", "QB", "K", "DST", "nan"}

EmptyRow == [f \in {} |-> NaN]

WithField(r, f, v) == [x \in DOMAIN r \cup {f} |-> IF x = f THEN v ELSE r[x]]

ScoreStart ==
    /\ row = EmptyRow
    /\ pos \in PosArgs
    /\ scoring \in DOMAIN ScoringFiles
    /\ result = NotCalled
    /\ earlier = {}

\* the caller builds the row: one more column
SetField(f, v) ==
    /\ result = NotCalled
    /\ f \notin DOMAIN row
    /\ Cardinality(DOMAIN row) < MaxFields
    /\ row' = WithField(row, f, v)
    /\ UNCHANGED <<pos, scoring, result, earlier>>
    /\ UNCHANGED otherThanScore

\* calculate_fantasy_points(row, pos, scoring)
Score ==
    /\ result = NotCalled
    /\ result' = calculate_fantasy_points(row, pos, load_scoring(scoring))
    /\ UNCHANGED <<row, pos, scoring, earlier>>
    /\ UNCHANGED otherThanScore

ScoreNext ==
    \/ \E f \in RowFields : \E v \in FieldVals(f) : SetField(f, v)
    \/ Score

(***************************************************************************)
(* A caller that scores one row after another under the same rules, as     *)
(* apply_scoring does over a frame.  The rows are the parts of the         *)
(* quarterback line passing_yards 320, passing_tds 3, interceptions 1,     *)
(* rushing_yards 20.                                                       *)
(***************************************************************************)
MaxEarlier == 1

QuarterbackLine ==
    [passing_yards |-> Num(320), passing_tds |-> Num(3),
     interceptions |-> Num(1), rushing_yards |-> Num(20)]

CallRows == {[f \in S |-> QuarterbackLine[f]] : S \in SUBSET DOMAIN QuarterbackLine}

CallPositions == {"QB", "K"}

CallRules == {"league", "plain", "no_weight"}

CallsStart ==
    /\ row \in CallRows
    /\ pos \in CallPositions
    /\ scoring \in CallRules
    /\ result = NotCalled
    /\ earlier = {}

\* the caller keeps what the call returned and hands over the next row
NextRow(r, p) ==
    /\ result # NotCalled
    /\ Cardinality(earlier) < MaxEarlier
    /\ earlier' = earlier \cup {[row |-> row, pos |-> pos, result |-> result]}
    /\ row' = r
    /\ pos' = p
    /\ result' = NotCalled
    /\ UNCHANGED scoring
    /\ UNCHANGED otherThanScore

(***************************************************************************)
(* The waiver-wire scripts.  Both compute fantasy_points_custom column by  *)
(* column over the whole DataFrame; every operation is element-wise, so    *)
(* the model follows one row.  A cell is a number or NaN; a Series sum     *)
(* with a NaN operand is NaN; df[c] of a missing column raises KeyError.   *)
(***************************************************************************)
NaNRes == [err |-> "nan", v |-> 0]
Raised(x) == x.err \notin {"none", "nan"}

\* a + b on floats that may be NaN, left operand evaluated first
FPlus(a, b) ==
    IF Raised(a) THEN a
    ELSE IF Raised(b) THEN b
    ELSE IF a.err = "nan" \/ b.err = "nan" THEN NaNRes
    ELSE Ok(a.v + b.v)

RECURSIVE FSumFrom(_, _, _)
FSumFrom(acc, terms, i) ==
    IF i > Len(terms) THEN acc ELSE FSumFrom(FPlus(acc, terms[i]), terms, i + 1)

\* df[c] * w
Col(r, c, w) ==
    IF c \notin DOMAIN r THEN Raise("KeyError")
    ELSE IF r[c].t = "num" THEN Ok(r[c].v * w)
    ELSE NaNRes

\* df[c].fillna(0) * w
ColFill0(r, c, w) ==
    IF c \notin DOMAIN r THEN Raise("KeyError")
    ELSE IF r[c].t = "num" THEN Ok(r[c].v * w)
    ELSE Ok(0)

\* df.loc[df[c] >= floor, 'fantasy_points_custom'] += 1
BonusAt(r, c, floor) ==
    IF c \notin DOMAIN r THEN Raise("KeyError")
    ELSE Ok(IF r[c].t = "num" /\ r[c].v >= floor THEN 1000 ELSE 0)

\* df['position'] == 'DEF'
IsDEF(r) == r["position"].t = "str" /\ r["position"].s = "DEF"

\* df.loc[df['position'] == 'DEF', 'fantasy_points_custom'] += x
OnlyDEF(r, x) ==
    IF Raised(x) THEN x
    ELSE IF "position" \notin DOMAIN r THEN Raise("KeyError")
    ELSE IF IsDEF(r) THEN x
    ELSE Ok(0)

\* np.select(conditions, choices, default=0): the choice of the first true condition
RECURSIVE SelectFrom(_, _, _)
SelectFrom(conditions, choices, i) ==
    IF i > Len(conditions) THEN 0
    ELSE IF conditions[i] THEN choices[i]
    ELSE SelectFrom(conditions, choices, i + 1)

np_select(conditions, choices) == SelectFrom(conditions, choices, 1)

\* a comparison of a cell with NaN in it is False
CellIn(c, lo, hi) == c.t = "num" /\ c.v >= lo /\ c.v <= hi
CellAtLeast(c, lo) == c.t = "num" /\ c.v >= lo

\* data/analysis/waiver_wire.py, conditions_pa and points_pa
conditions_pa(c) == <<
    CellIn(c, 0, 0),
    CellIn(c, 1, 6),
    CellIn(c, 7, 13),
    CellIn(c, 14, 17),
    CellIn(c, 28, 34),
    CellIn(c, 35, 45),
    CellAtLeast(c, 46) >>

points_pa == <<5000, 4000, 3000, 1000, -1000, -3000, -5000>>

\* analysis/waiver_wire.py, conditions and points
conditions(c) == <<
    CellIn(c, 0, 0),
    CellIn(c, 1, 6),
    CellIn(c, 7, 13),
    CellIn(c, 14, 17),
    CellIn(c, 18, 27),
    CellIn(c, 28, 34),
    CellIn(c, 35, 45),
    CellAtLeast(c, 46) >>

points == <<5000, 4000, 3000, 1000, 0, -1000, -3000, -5000>>

\* data/analysis/waiver_wire.py: every column is read without a check
data_calculate_fantasy_points(r) ==
    FSumFrom(Ok(0), <<
        Col(r, "passing_yards", 50),
        Col(r, "passing_tds", 4000),
        Col(r, "interceptions", -2000),
        Col(r, "passing_2pt_conversions", 2000),
        Col(r, "rushing_yards", 100),
        Col(r, "rushing_tds", 6000),
        Col(r, "rushing_2pt_conversions", 2000),
        Col(r, "rushing_first_downs", 1000),
        Col(r, "receptions", 1000),
        Col(r, "receiving_yards", 100),
        Col(r, "receiving_tds", 6000),
        Col(r, "receiving_2pt_conversions", 2000),
        Col(r, "receiving_first_downs", 500),
        Col(r, "fumbles_lost", -2000),
        Col(r, "special_teams_tds", 6000),
        BonusAt(r, "passing_yards", 400),
        BonusAt(r, "rushing_yards", 100),
        BonusAt(r, "receiving_yards", 200),
        Col(r, "pat_made", 1000),
        Col(r, "fg_made_0_39", 3000),
        Col(r, "fg_made_40_49", 4000),
        Col(r, "fg_made_50_59", 5000),
        Col(r, "fg_made_60_", 6000),
        Col(r, "fg_missed", -1000),
        Col(r, "sacks", 1000),
        Col(r, "interceptions", 2000),
        Col(r, "fumbles_recovered", 2000),
        Col(r, "safeties", 2000),
        Col(r, "defensive_tds", 6000),
        Col(r, "blocked_kicks", 2000),
        OnlyDEF(r, IF "points_allowed" \notin DOMAIN r THEN Raise("KeyError")
                   ELSE Ok(np_select(conditions_pa(r["points_allowed"]), points_pa)))
    >>, 1)

scoring_rules == <<
    <<"passing_yards", 50>>, <<"passing_tds", 4000>>, <<"interceptions", -2000>>,
    <<"passing_2pt_conversions", 2000>>, <<"rushing_yards", 100>>, <<"rushing_tds", 6000>>,
    <<"rushing_2pt_conversions", 2000>>, <<"rushing_first_downs", 1000>>,
    <<"receptions", 1000>>, <<"receiving_yards", 100>>, <<"receiving_tds", 6000>>,
    <<"receiving_2pt_conversions", 2000>>, <<"receiving_first_downs", 500>>,
    <<"fumbles_lost", -2000>>, <<"special_teams_tds", 6000>>, <<"pat_made", 1000>>,
    <<"fg_made_0_39", 3000>>, <<"fg_made_40_49", 4000>>, <<"fg_made_50_59", 5000>>,
    <<"fg_made_60_", 6000>>, <<"fg_missed", -1000>> >>

dst_rules == <<
    <<"sacks", 1000>>, <<"interceptions", 2000>>, <<"fumbles_recovered", 2000>>,
    <<"safeties", 2000>>, <<"defensive_tds", 6000>>, <<"blocked_kicks", 2000>> >>

\* analysis/waiver_wire.py: a column is used only if the frame has it
analysis_calculate_fantasy_points(r) ==
    LET rule(i) == IF scoring_rules[i][1] \in DOMAIN r
                   THEN ColFill0(r, scoring_rules[i][1], scoring_rules[i][2])
                   ELSE Ok(0)
        bonus(c, floor) == IF c \in DOMAIN r THEN BonusAt(r, c, floor) ELSE Ok(0)
        dst(i) == IF dst_rules[i][1] \in DOMAIN r
                  THEN OnlyDEF(r, ColFill0(r, dst_rules[i][1], dst_rules[i][2]))
                  ELSE Ok(0)
    IN  FSumFrom(Ok(0),
            [i \in 1..Len(scoring_rules) |-> rule(i)]
            \o << bonus("passing_yards", 400),
                  bonus("rushing_yards", 100),
                  bonus("receiving_yards", 200) >>
            \o [i \in 1..Len(dst_rules) |-> dst(i)]
            \o << IF "points_allowed" \in DOMAIN r
                  THEN OnlyDEF(r, Ok(np_select(conditions(r["points_allowed"]), points)))
                  ELSE Ok(0) >>,
            1)

(***************************************************************************)
(* The frames of the runs: the CSV with every column the scripts read, all *)
(* statistics 0, changed in at most MaxEdits places (a cell set, or a      *)
(* column missing from the CSV).                                           *)
(***************************************************************************)
MaxEdits == 2
MaxPointsAllowed == 50

WaiverStatColumns ==
    {scoring_rules[i][1] : i \in 1..Len(scoring_rules)}
    \cup {dst_rules[i][1] : i \in 1..Len(dst_rules)}
    \cup {"points_allowed"}

FullFrameRow ==
    [c \in WaiverStatColumns \cup {"position"} |->
        IF c = "position" THEN Str("QB") ELSE Num(0)]

EditColumns == {"passing_yards", "rushing_yards", "interceptions", "sacks",
                "points_allowed", "position"}

EditVals(c) ==
    CASE c = "passing_yards" -> {Num(400), NaN}
      [] c = "rushing_yards" -> {Num(100), Num(250), NaN}
      [] c = "interceptions" -> {Num(1), NaN}
      [] c = "sacks" -> {Num(2)}
      [] c = "points_allowed" -> {Num(n) : n \in 1..MaxPointsAllowed} \cup {NaN}
      [] c = "position" -> {Str("DEF")}

\* a column the CSV does not have
Missing == [t |-> "missing", v |-> 0, s |-> ""]

\* pd.read_csv(DATA_FILE): the row of the frame; wcsv holds the CSV as its
\* differences from the all-zero file
read_csv(csv) ==
    [c \in {x \in DOMAIN FullFrameRow : x \notin DOMAIN csv \/ csv[x] # Missing} |->
        IF c \in DOMAIN csv THEN csv[c] ELSE FullFrameRow[c]]

WaiverNotRun == [data |-> NotCalled, analysis |-> NotCalled]

WaiverStart ==
    /\ wcsv = EmptyRow
    /\ wres = WaiverNotRun

WaiverIdle == WaiverStart

\* the CSV holds another value in one cell
SetCell(c, v) ==
    /\ wres = WaiverNotRun
    /\ c \notin DOMAIN wcsv
    /\ Cardinality(DOMAIN wcsv) < MaxEdits
    /\ wcsv' = WithField(wcsv, c, v)
    /\ UNCHANGED wres
    /\ UNCHANGED otherThanWaiver

\* the CSV lacks one column
DropColumn(c) ==
    /\ wres = WaiverNotRun
    /\ c \notin DOMAIN wcsv
    /\ Cardinality(DOMAIN wcsv) < MaxEdits
    /\ wcsv' = WithField(wcsv, c, Missing)
    /\ UNCHANGED wres
    /\ UNCHANGED otherThanWaiver

\* data/analysis/waiver_wire.py main: df = calculate_fantasy_points(df)
RunDataWaiver ==
    /\ wres.data = NotCalled
    /\ wres' = [wres EXCEPT !.data = data_calculate_fantasy_points(read_csv(wcsv))]
    /\ UNCHANGED wcsv
    /\ UNCHANGED otherThanWaiver

\* analysis/waiver_wire.py main: df = calculate_fantasy_points(df)
RunAnalysisWaiver ==
    /\ wres.analysis = NotCalled
    /\ wres' = [wres EXCEPT !.analysis = analysis_calculate_fantasy_points(read_csv(wcsv))]
    /\ UNCHANGED wcsv
    /\ UNCHANGED otherThanWaiver

WaiverNext ==
    \/ \E c \in EditColumns : \E v \in EditVals(c) : SetCell(c, v)
    \/ \E c \in EditColumns : DropColumn(c)
    \/ RunDataWaiver
    \/ RunAnalysisWaiver

(***************************************************************************)
(* analysis/vorp_calculator.py.  vstats is last_season_stats: how many     *)
(* players of each (position, ppg) kind the analysis season has.  ppg and  *)
(* vorp are in thousandths of a point; the report holds them rounded to    *)
(* hundredths.                                                             *)
(***************************************************************************)
REPLACEMENT_LEVELS == [QB |-> 11, RB |-> 21, WR |-> 21, TE |-> 11]

\* the order in which REPLACEMENT_LEVELS.items() yields the positions
ReplacementOrder == <<"QB", "RB", "WR", "TE">>

MaxPlayers == 12

\* the kinds of season line a player can have, in the frame's row order
PlayerKinds ==
    << [position |-> "QB", ppg |-> 18250],
       [position |-> "QB", ppg |-> 12345],
       [position |-> "QB", ppg |-> 5000],
       [position |-> "TE", ppg |-> 7000],
       [position |-> "RB", ppg |-> 9000],
       [position |-> "K",  ppg |-> 8000] >>

Repeat(x, n) == [i \in 1..n |-> x]

\* the rows of last_season_stats, kind by kind
RECURSIVE FrameFrom(_, _)
FrameFrom(stats, k) ==
    IF k > Len(PlayerKinds) THEN << >>
    ELSE Repeat(PlayerKinds[k], stats[k]) \o FrameFrom(stats, k + 1)

last_season_stats(stats) == FrameFrom(stats, 1)

\* df[df['position'] == pos]
WherePosition(df, p) == SelectSeq(df, LAMBDA r : r.position = p)

\* one row put into a frame already sorted descending by key, after its equals
RECURSIVE InsertDesc(_, _, _)
InsertDesc(sorted, r, key) ==
    IF sorted = << >> THEN <<r>>
    ELSE IF Head(sorted)[key] >= r[key]
         THEN <<Head(sorted)>> \o InsertDesc(Tail(sorted), r, key)
         ELSE <<r>> \o sorted

\* df.sort_values(by=key, ascending=False)
RECURSIVE SortDescFrom(_, _, _)
SortDescFrom(df, key, n) ==
    IF n = 0 THEN << >>
    ELSE InsertDesc(SortDescFrom(df, key, n - 1), df[n], key)

sort_values_desc(df, key) == SortDescFrom(df, key, Len(df))

\* lines 62-65 read with the cutoff one rank early
replacement_value_one_rank_early(pos_df, rank_cutoff) ==
    IF Len(pos_df) > rank_cutoff - 2
        THEN pos_df[rank_cutoff - 1].ppg
        ELSE 0

\* lines 62-65
replacement_value(pos_df, rank_cutoff) ==
    IF Len(pos_df) > rank_cutoff
        THEN pos_df[rank_cutoff].ppg
        ELSE 0

\* lines 60-68 for one position: the sorted frame with its vorp column
PositionVorp(df, p) ==
    LET pos_df == sort_values_desc(WherePosition(df, p), "ppg")
        rv == replacement_value(pos_df, REPLACEMENT_LEVELS[p])
    IN  [i \in 1..Len(pos_df) |->
            [position |-> p, ppg |-> pos_df[i].ppg, vorp |-> pos_df[i].ppg - rv]]

\* pd.concat(vorp_data)
RECURSIVE ConcatFrom(_, _)
ConcatFrom(df, k) ==
    IF k > Len(ReplacementOrder) THEN << >>
    ELSE PositionVorp(df, ReplacementOrder[k]) \o ConcatFrom(df, k + 1)

\* final_df.round(2).to_dict('records')
RoundRecords(df) ==
    [i \in 1..Len(df) |->
        [position |-> df[i].position, ppg |-> Round2(df[i].ppg), vorp |-> Round2(df[i].vorp)]]

VorpNotRun == [run |-> FALSE, players |-> << >>]

NoReplacement == [p \in DOMAIN REPLACEMENT_LEVELS |-> 0]

VorpStart ==
    /\ vstats = [k \in 1..Len(PlayerKinds) |-> 0]
    /\ vrepl = NoReplacement
    /\ vreport = VorpNotRun

VorpIdle == VorpStart

RECURSIVE TotalFrom(_, _)
TotalFrom(stats, k) == IF k > Len(stats) THEN 0 ELSE stats[k] + TotalFrom(stats, k + 1)

\* the season has one more player of kind k
AddPlayer(k) ==
    /\ ~vreport.run
    /\ TotalFrom(vstats, 1) < MaxPlayers
    /\ vstats' = [vstats EXCEPT ![k] = @ + 1]
    /\ UNCHANGED <<vrepl, vreport>>
    /\ UNCHANGED otherThanVorp

\* main, lines 57-81
RunVorp ==
    /\ ~vreport.run
    /\ LET df == last_season_stats(vstats)
           final_df == sort_values_desc(ConcatFrom(df, 1), "vorp")
       IN  /\ vrepl' = [p \in DOMAIN REPLACEMENT_LEVELS |->
                           replacement_value(sort_values_desc(WherePosition(df, p), "ppg"),
                                             REPLACEMENT_LEVELS[p])]
           /\ vreport' = [run |-> TRUE, players |-> RoundRecords(final_df)]
    /\ UNCHANGED vstats
    /\ UNCHANGED otherThanVorp

VorpNext ==
    \/ \E k \in 1..Len(PlayerKinds) : AddPlayer(k)
    \/ RunVorp

(***************************************************************************)
(* analysis/matchup_analyzer.py.  mseason is season_df (the rows of the    *)
(* analysis season, already scored), mschedule is upcoming_games, mreport  *)
(* is matchup_report.json.  Means and projections are exact fractions      *)
(* [n, d] of points in hundredths; a float NaN is the value NaNFrac.       *)
(***************************************************************************)
YOUR_TEAM_ROSTER ==
    << "Lamar Jackson", "Derrick Henry", "Christian McCaffrey", "Ja'Marr Chase",
       "A.J. Brown", "Travis Kelce", "Jahmyr Gibbs", "Josh Allen", "Saquon Barkley" >>

RECURSIVE GCD(_, _)
GCD(a, b) == IF b = 0 THEN a ELSE GCD(b, a % b)

Abs(x) == IF x < 0 THEN -x ELSE x

\* the fraction n/d in lowest terms, d > 0
Frac(n, d) ==
    LET g == GCD(Abs(n), Abs(d))
        sgn == IF d < 0 THEN -1 ELSE 1
    IN  [t |-> "num", n |-> (sgn * n) \div g, d |-> (sgn * d) \div g]

NaNFrac == [t |-> "nan", n |-> 0, d |-> 1]
InfFrac(n) == [t |-> IF n > 0 THEN "inf" ELSE "-inf", n |-> 0, d |-> 1]

FracAdd(a, b) == Frac(a.n * b.d + b.n * a.d, a.d * b.d)
FracGe(a, b) == a.n * b.d >= b.n * a.d

\* a / b on floats: no exception, NaN or an infinity when b is zero
FracDiv(a, b) ==
    IF b.n = 0 THEN (IF a.n = 0 THEN NaNFrac ELSE InfFrac(a.n))
    ELSE Frac(a.n * b.d, a.d * b.n)

\* a * b on floats
FracMul(a, b) ==
    IF b.t = "nan" THEN NaNFrac
    ELSE IF b.t # "num"
         THEN (IF a.n = 0 THEN NaNFrac ELSE InfFrac(IF b.t = "inf" THEN a.n ELSE -a.n))
         ELSE Frac(a.n * b.n, a.d * b.d)

RECURSIVE FracSum(_)
FracSum(fs) ==
    IF fs = << >> THEN Frac(0, 1) ELSE FracAdd(Head(fs), FracSum(Tail(fs)))

\* the elements of a set as a sequence
RECURSIVE SeqOf(_)
SeqOf(S) ==
    IF S = {} THEN << >>
    ELSE LET x == CHOOSE y \in S : TRUE IN <<x>> \o SeqOf(S \ {x})

\* Series.mean() of fantasy_points_custom over a non-empty group of rows
MeanPoints(rows) ==
    LET rs == SeqOf(rows)
    IN  FracDiv(FracSum([i \in 1..Len(rs) |-> Frac(rs[i].fantasy_points_custom, 1)]),
                Frac(Len(rs), 1))

\* lines 43-45
player_ppg(season_df) ==
    LET active_players == {r \in season_df : r.fantasy_points_custom > 0}
        keys == {[player_display_name |-> r.player_display_name,
                  position |-> r.position,
                  recent_team |-> r.recent_team] : r \in active_players}
    IN  {[player_display_name |-> k.player_display_name,
          position |-> k.position,
          recent_team |-> k.recent_team,
          player_ppg |-> MeanPoints({r \in active_players :
                                        /\ r.player_display_name = k.player_display_name
                                        /\ r.position = k.position
                                        /\ r.recent_team = k.recent_team})] : k \in keys}

\* line 49 with the away team taken whatever the player's side
opponent_always_away(r) == r.away_team

\* line 49
opponent(r) == IF r.recent_team = r.home_team THEN r.away_team ELSE r.home_team

\* lines 50-51
ppg_allowed_table(season_df) ==
    LET keys == {[team |-> opponent(r), position |-> r.position] : r \in season_df}
    IN  {[team |-> k.team, position |-> k.position,
          ppg_allowed |-> MeanPoints({r \in season_df :
                                         opponent(r) = k.team /\ r.position = k.position})]
            : k \in keys}

\* one entry put into a frame sorted by ppg_allowed descending
RECURSIVE InsertAllowed(_, _)
InsertAllowed(sorted, e) ==
    IF sorted = << >> THEN <<e>>
    ELSE IF FracGe(Head(sorted).ppg_allowed, e.ppg_allowed)
         THEN <<Head(sorted)>> \o InsertAllowed(Tail(sorted), e)
         ELSE <<e>> \o sorted

RECURSIVE SortAllowed(_)
SortAllowed(es) ==
    IF es = << >> THEN << >> ELSE InsertAllowed(SortAllowed(Tail(es)), Head(es))

\* rank(ascending=False, method='min'): the first ordinal among the tied
rank_min_descending(e, group) ==
    LET sorted == SortAllowed(SeqOf(group))
        tied == {j \in 1..Len(sorted) : sorted[j].ppg_allowed = e.ppg_allowed}
    IN  CHOOSE j \in tied : \A k \in tied : j <= k

\* rank(ascending=False, method='max'): the entries of the group take the
\* ordinals 1..n in descending order and tied entries the last of theirs
rank_max_descending(e, group) ==
    LET sorted == SortAllowed(SeqOf(group))
        tied == {j \in 1..Len(sorted) : sorted[j].ppg_allowed = e.ppg_allowed}
    IN  CHOOSE j \in tied : \A k \in tied : k <= j

\* line 52: the rank within the position
points_allowed(season_df) ==
    LET tbl == ppg_allowed_table(season_df)
    IN  {[team |-> e.team, position |-> e.position, ppg_allowed |-> e.ppg_allowed,
          rank |-> rank_max_descending(e, {o \in tbl : o.position = e.position})]
            : e \in tbl}

\* lines 89-93 with every band closed one rank early
rating_of_strictly_below(rank) ==
    IF rank < 5 THEN "Great"
    ELSE IF rank < 12 THEN "Good"
    ELSE IF rank < 20 THEN "Average"
    ELSE IF rank < 28 THEN "Bad"
    ELSE "Very Bad"

\* lines 89-93
rating_of(rank) ==
    IF rank <= 5 THEN "Great"
    ELSE IF rank <= 12 THEN "Good"
    ELSE IF rank <= 20 THEN "Average"
    ELSE IF rank <= 28 THEN "Bad"
    ELSE "Very Bad"

\* the details text: fixed, or f"vs. the #{int(rank)} easiest defense for {pos}s"
Details(text, rank, p) == [text |-> text, rank |-> rank, position |-> p]

\* lines 65-100: what one roster name appends to matchup_report
MatchupEntries(player_name, season_df, upcoming_games) ==
    LET player == {p \in player_ppg(season_df) : p.player_display_name = player_name}
    IN  IF player = {} THEN << >>
        ELSE
        \* .iloc[0]; every modelled name plays one position for one team
        LET first == CHOOSE p \in player : TRUE
            player_team == first.recent_team
            player_pos == first.position
            player_avg_ppg == first.player_ppg
            game == SelectSeq(upcoming_games,
                              LAMBDA g : g.home_team = player_team \/ g.away_team = player_team)
        IN  IF game = << >>
            THEN << [player |-> player_name, opponent |-> "BYE WEEK", rating |-> "N/A",
                     details |-> Details("Player is on a bye week.", 0, ""),
                     player_ppg |-> player_avg_ppg,
                     ppg_allowed |-> Frac(0, 1), projection |-> Frac(0, 1)] >>
            ELSE
            LET opponent_team == IF game[1].home_team = player_team
                                    THEN game[1].away_team ELSE game[1].home_team
                pa == points_allowed(season_df)
                def_rank_row == {e \in pa : e.team = opponent_team /\ e.position = player_pos}
            IN  IF def_rank_row = {}
                THEN << [player |-> player_name, position |-> player_pos,
                         opponent |-> opponent_team, rating |-> "Average",
                         details |-> Details("No ranking data available.", 0, ""),
                         player_ppg |-> player_avg_ppg,
                         ppg_allowed |-> player_avg_ppg, projection |-> player_avg_ppg] >>
                ELSE
                LET e == CHOOSE x \in def_rank_row : TRUE
                    same == SeqOf({x \in pa : x.position = player_pos})
                    league_avg_allowed ==
                        FracDiv(FracSum([i \in 1..Len(same) |-> same[i].ppg_allowed]),
                                Frac(Len(same), 1))
                IN  << [player |-> player_name, position |-> player_pos,
                        opponent |-> opponent_team, rating |-> rating_of(e.rank),
                        details |-> Details("vs. the # easiest defense for", e.rank, player_pos),
                        player_ppg |-> player_avg_ppg,
                        ppg_allowed |-> e.ppg_allowed,
                        projection |-> FracMul(player_avg_ppg,
                                               FracDiv(e.ppg_allowed, league_avg_allowed))] >>

\* lines 62-100
RECURSIVE ReportFrom(_, _, _)
ReportFrom(i, season_df, upcoming_games) ==
    IF i > Len(YOUR_TEAM_ROSTER) THEN << >>
    ELSE MatchupEntries(YOUR_TEAM_ROSTER[i], season_df, upcoming_games)
            \o ReportFrom(i + 1, season_df, upcoming_games)

MaxRows == 3

\* the players whose game lines the season can hold
SeasonPlayers ==
    { [player_display_name |-> "Lamar Jackson", position |-> "QB", recent_team |-> "BAL"],
      [player_display_name |-> "Derrick Henry", position |-> "RB", recent_team |-> "BAL"],
      [player_display_name |-> "Joe Burrow", position |-> "QB", recent_team |-> "CIN"] }

Game(home, away) == [home_team |-> home, away_team |-> away]

SeasonGames == {Game("BAL", "CIN"), Game("KC", "BAL"), Game("CIN", "KC")}

\* fantasy_points_custom of a game line, in hundredths
SeasonPoints == {0, 600, 1800}

SeasonRow(p, g, fp) ==
    [player_display_name |-> p.player_display_name, position |-> p.position,
     recent_team |-> p.recent_team, home_team |-> g.home_team, away_team |-> g.away_team,
     fantasy_points_custom |-> fp]

\* upcoming_games as import_schedules can return it; empty when the schedule
\* has no week above 0
UpcomingOptions ==
    { << >>,
      << Game("BAL", "CIN") >>,
      << Game("KC", "BAL") >>,
      << Game("CIN", "KC") >> }

MatchupNotRun == [status |-> "notrun", matchups |-> << >>]

MatchupStart ==
    /\ mseason = {}
    /\ mschedule \in UpcomingOptions
    /\ mreport = MatchupNotRun

MatchupIdle ==
    /\ mseason = {}
    /\ mschedule = << >>
    /\ mreport = MatchupNotRun

\* the season holds one more game line
AddRow(p, g, fp) ==
    /\ mreport = MatchupNotRun
    /\ Cardinality(mseason) < MaxRows
    /\ \A r \in mseason :
          ~(/\ r.player_display_name = p.player_display_name
            /\ r.home_team = g.home_team
            /\ r.away_team = g.away_team)
    /\ mseason' = mseason \cup {SeasonRow(p, g, fp)}
    /\ UNCHANGED <<mschedule, mreport>>
    /\ UNCHANGED otherThanMatchup

\* main, lines 41-107; int(next_week) at line 105 raises on the NaN that
\* min() of an empty schedule gives, and then no report is written
RunMatchup ==
    /\ mreport = MatchupNotRun
    /\ mreport' = IF mschedule = << >>
                     THEN [status |-> "ValueError", matchups |-> << >>]
                     ELSE [status |-> "written",
                           matchups |-> ReportFrom(1, mseason, mschedule)]
    /\ UNCHANGED <<mseason, mschedule>>
    /\ UNCHANGED otherThanMatchup

MatchupNext ==
    \/ \E p \in SeasonPlayers, g \in SeasonGames, fp \in SeasonPoints : AddRow(p, g, fp)
    \/ RunMatchup

(***************************************************************************)
(* analysis/consistency_analyzer.py.  cgames is the scored frame: how many *)
(* game lines of each kind every player has.  creport is the player list   *)
(* of consistency_report.json.  Points are in hundredths, percentages in   *)
(* hundredths of a percent; means are exact fractions until the report     *)
(* rounds them.  The std_dev, ceiling and floor columns are left out.      *)
(***************************************************************************)
ANALYSIS_SEASONS == {2024, 2023, 2022}

MIN_GAMES_PLAYED == 8

\* line 56, in hundredths of a point
thresholds == [QB |-> 1500, RB |-> 1000, WR |-> 1000, TE |-> 800]

\* the players of the frame, in the order of their player_id
ConsistencyPlayers ==
    << [player_id |-> "00-01", position |-> "QB"],
       [player_id |-> "00-02", position |-> "QB"],
       [player_id |-> "00-03", position |-> "K"] >>

\* the kinds of game line: the season and fantasy_points_custom
GameKinds ==
    << [season |-> 2024, fantasy_points_custom |-> 1200],
       [season |-> 2023, fantasy_points_custom |-> 1500],
       [season |-> 2022, fantasy_points_custom |-> 3000],
       [season |-> 2021, fantasy_points_custom |-> 3000] >>

\* the lines a player can have when the run starts
StartingLines == { <<7, 0, 0, 0>>, <<3, 4, 1, 0>>, <<0, 1, 0, 7>> }

MaxLines == 26

\* line 40: the kinds of line that analysis_df keeps
InWindow == {k \in 1..Len(GameKinds) : GameKinds[k].season \in ANALYSIS_SEASONS}

RECURSIVE SumOver(_, _)
SumOver(f, ks) ==
    IF ks = {} THEN 0
    ELSE LET k == CHOOSE x \in ks : TRUE IN f[k] + SumOver(f, ks \ {k})

\* line 47: games_played = count of the group's lines
games_played(lines) == SumOver(lines, InWindow)

\* line 48: mean of fantasy_points_custom over the group
mean_ppg(lines) ==
    Frac(SumOver([k \in 1..Len(GameKinds) |-> lines[k] * GameKinds[k].fantasy_points_custom],
                 InWindow),
         games_played(lines))

\* thresholds.get(pos, 0)
ThresholdOf(p) == IF p \in DOMAIN thresholds THEN thresholds[p] ELSE 0

\* lines 58-65 with the floor compared by > instead of >=
get_consistency_strictly_above(p, lines) ==
    LET threshold == ThresholdOf(p)
        good_games == SumOver(lines, {k \in InWindow :
                                        GameKinds[k].fantasy_points_custom > threshold})
        total_games == games_played(lines)
    IN  IF threshold = 0 THEN Frac(0, 1)
        ELSE IF total_games > 0 THEN Frac(good_games * 100, total_games) ELSE Frac(0, 1)

\* lines 58-65
get_consistency(p, lines) ==
    LET threshold == ThresholdOf(p)
        good_games == SumOver(lines, {k \in InWindow :
                                        GameKinds[k].fantasy_points_custom >= threshold})
        total_games == games_played(lines)
    IN  IF threshold = 0 THEN Frac(0, 1)
        ELSE IF total_games > 0 THEN Frac(good_games * 100, total_games) ELSE Frac(0, 1)

\* lines 43-70: one record per player that has a line in the window
RECURSIVE StatsFrom(_, _)
StatsFrom(games, i) ==
    IF i > Len(ConsistencyPlayers) THEN << >>
    ELSE (IF games_played(games[i]) = 0 THEN << >>
          ELSE << [player_id |-> ConsistencyPlayers[i].player_id,
                   position |-> ConsistencyPlayers[i].position,
                   games_played |-> games_played(games[i]),
                   mean_ppg |-> mean_ppg(games[i]),
                   consistency_pct |->
                       get_consistency(ConsistencyPlayers[i].position, games[i])] >>)
         \o StatsFrom(games, i + 1)

\* line 73 with the floor compared by > instead of >=
enough_games_strictly_above(rec) == rec.games_played > MIN_GAMES_PLAYED

\* line 73
enough_games(rec) == rec.games_played >= MIN_GAMES_PLAYED

\* the order of the position strings
PositionOrder == <<"K", "QB", "RB", "TE", "WR">>

PositionIndex(p) == CHOOSE i \in 1..Len(PositionOrder) : PositionOrder[i] = p

FracGt(a, b) == a.n * b.d > b.n * a.d

\* line 76 with the mean ascending
consistency_before_mean_ascending(a, b) ==
    \/ PositionIndex(a.position) < PositionIndex(b.position)
    \/ /\ a.position = b.position
       /\ \/ FracGt(a.consistency_pct, b.consistency_pct)
          \/ /\ a.consistency_pct = b.consistency_pct
             /\ FracGt(b.mean_ppg, a.mean_ppg)

\* line 76: a sorts strictly before b
consistency_before(a, b) ==
    \/ PositionIndex(a.position) < PositionIndex(b.position)
    \/ /\ a.position = b.position
       /\ \/ FracGt(a.consistency_pct, b.consistency_pct)
          \/ /\ a.consistency_pct = b.consistency_pct
             /\ FracGt(a.mean_ppg, b.mean_ppg)

\* one record put into a sorted frame, after the records it does not precede
RECURSIVE InsertRecord(_, _)
InsertRecord(sorted, r) ==
    IF sorted = << >> THEN <<r>>
    ELSE IF consistency_before(r, Head(sorted)) THEN <<r>> \o sorted
    ELSE <<Head(sorted)>> \o InsertRecord(Tail(sorted), r)

RECURSIVE SortRecordsFrom(_, _)
SortRecordsFrom(df, n) ==
    IF n = 0 THEN << >> ELSE InsertRecord(SortRecordsFrom(df, n - 1), df[n])

\* round(2) of an exact fraction, in hundredths; a tie goes to the even one
RoundFrac(f) ==
    LET q == f.n \div f.d
        r == f.n % f.d
    IN  IF 2 * r < f.d THEN q
        ELSE IF 2 * r > f.d THEN q + 1
        ELSE IF q % 2 = 0 THEN q ELSE q + 1

\* lines 82-85
ConsistencyRecords(df) ==
    [i \in 1..Len(df) |->
        [player_id |-> df[i].player_id, position |-> df[i].position,
         games_played |-> df[i].games_played,
         mean_ppg |-> RoundFrac(df[i].mean_ppg),
         consistency_pct |-> RoundFrac(Frac(df[i].consistency_pct.n * 100,
                                            df[i].consistency_pct.d))]]

ConsistencyNotRun == [run |-> FALSE, players |-> << >>]

ConsistencyStart ==
    /\ cgames \in [1..Len(ConsistencyPlayers) -> StartingLines]
    /\ creport = ConsistencyNotRun

ConsistencyIdle ==
    /\ cgames = [i \in 1..Len(ConsistencyPlayers) |-> <<0, 0, 0, 0>>]
    /\ creport = ConsistencyNotRun

RECURSIVE TotalLines(_, _)
TotalLines(games, i) ==
    IF i > Len(games) THEN 0
    ELSE SumOver(games[i], 1..Len(GameKinds)) + TotalLines(games, i + 1)

\* the data file holds one more game line of kind k for player i
AddGame(i, k) ==
    /\ ~creport.run
    /\ TotalLines(cgames, 1) < MaxLines
    /\ cgames' = [cgames EXCEPT ![i][k] = @ + 1]
    /\ UNCHANGED creport
    /\ UNCHANGED otherThanConsistency

\* main, lines 37-88
RunConsistency ==
    /\ ~creport.run
    /\ LET final_df == SelectSeq(StatsFrom(cgames, 1), enough_games)
       IN  creport' = [run |-> TRUE,
                       players |-> ConsistencyRecords(SortRecordsFrom(final_df, Len(final_df)))]
    /\ UNCHANGED cgames
    /\ UNCHANGED otherThanConsistency

ConsistencyNext ==
    \/ \E i \in 1..Len(ConsistencyPlayers), k \in 1..Len(GameKinds) : AddGame(i, k)
    \/ RunConsistency

(***************************************************************************)
(* analysis/draft_tier_generator.py.  tplayers is relevant_players: how    *)
(* many players of each (position, ppg) kind played the analysis season;   *)
(* ppg is in tenths of a point.  tiers is what the run printed: for each   *)
(* position the players with their tier.  A threshold is                   *)
(* top_ppg - i * std * 0.75 with std the sample deviation, so              *)
(* ppg >= threshold is compared on squares:                                *)
(*   16 * (top - ppg)^2 * n * (n - 1)  <=  9 * i^2 * (n * sum(x^2) - sum(x)^2) *)
(* and is false for a single player, whose std is NaN.                     *)
(***************************************************************************)
POSITIONS_TO_TIER == <<"QB", "RB", "WR", "TE">>

num_tiers == 6

MaxTierPlayers == 5

\* the kinds of player, in the frame's row order
TierKinds ==
    << [position |-> "QB", ppg |-> 200],
       [position |-> "QB", ppg |-> 170],
       [position |-> "QB", ppg |-> 110],
       [position |-> "QB", ppg |-> 50],
       [position |-> "RB", ppg |-> 150],
       [position |-> "K",  ppg |-> 90] >>

RECURSIVE TierFrameFrom(_, _)
TierFrameFrom(players, k) ==
    IF k > Len(TierKinds) THEN << >>
    ELSE Repeat(TierKinds[k], players[k]) \o TierFrameFrom(players, k + 1)

relevant_players(players) == TierFrameFrom(players, 1)

RECURSIVE SeqSum(_)
SeqSum(xs) == IF xs = << >> THEN 0 ELSE Head(xs) + SeqSum(Tail(xs))

\* pos_df['ppg'].max() of a non-empty frame
top_ppg(pos_df) ==
    LET i == CHOOSE j \in 1..Len(pos_df) : \A k \in 1..Len(pos_df) : pos_df[k].ppg <= pos_df[j].ppg
    IN  pos_df[i].ppg

\* n * sum(x^2) - sum(x)^2 = n * (n - 1) * std^2
Spread(pos_df) ==
    LET n == Len(pos_df)
    IN  n * SeqSum([j \in 1..n |-> pos_df[j].ppg * pos_df[j].ppg])
          - SeqSum([j \in 1..n |-> pos_df[j].ppg]) * SeqSum([j \in 1..n |-> pos_df[j].ppg])

\* line 42: ppg >= tier_thresholds[i - 1], with i counted from 1
meets_threshold(ppg, i, pos_df) ==
    LET n == Len(pos_df)
        gap == top_ppg(pos_df) - ppg
    IN  /\ n >= 2
        /\ 16 * gap * gap * n * (n - 1) <= 9 * i * i * Spread(pos_df)

RECURSIVE AssignFrom(_, _, _)
AssignFrom(ppg, i, pos_df) ==
    IF i > num_tiers THEN num_tiers
    ELSE IF meets_threshold(ppg, i, pos_df) THEN i
    ELSE AssignFrom(ppg, i + 1, pos_df)

\* lines 40-44 returning the index of enumerate, counted from 0
assign_tier_from_zero(ppg, pos_df) == AssignFrom(ppg, 1, pos_df) - 1

\* lines 40-44 returning the last threshold met instead of the first
assign_tier_last_met(ppg, pos_df) ==
    LET met == {i \in 1..num_tiers : meets_threshold(ppg, i, pos_df)}
    IN  IF met = {} THEN num_tiers ELSE CHOOSE i \in met : \A j \in met : j <= i

\* lines 40-44
assign_tier(ppg, pos_df) == AssignFrom(ppg, 1, pos_df)

\* lines 30-46 raising on an empty position instead of returning
generate_tiers_rejecting_empty(player_data, position) ==
    LET pos_df == WherePosition(player_data, position)
    IN  IF pos_df = << >> THEN [err |-> "ValueError", rows |-> << >>]
        ELSE [err |-> "none",
              rows |-> [j \in 1..Len(pos_df) |->
                          [ppg |-> pos_df[j].ppg, tier |-> assign_tier(pos_df[j].ppg, pos_df)]]]

\* lines 30-46: nothing for an empty position, else pos_df with its tier column
generate_tiers(player_data, position) ==
    LET pos_df == WherePosition(player_data, position)
    IN  IF pos_df = << >> THEN [err |-> "none", rows |-> << >>]
        ELSE [err |-> "none",
              rows |-> [j \in 1..Len(pos_df) |->
                          [ppg |-> pos_df[j].ppg, tier |-> assign_tier(pos_df[j].ppg, pos_df)]]]

NoTiers == [p \in {POSITIONS_TO_TIER[i] : i \in 1..Len(POSITIONS_TO_TIER)} |-> << >>]

TiersNotRun == [status |-> "notrun", printed |-> NoTiers]

\* lines 83-84: position after position; an exception ends the run
RECURSIVE TiersFrom(_, _, _)
TiersFrom(player_data, i, printed) ==
    IF i > Len(POSITIONS_TO_TIER) THEN [status |-> "done", printed |-> printed]
    ELSE LET t == generate_tiers(player_data, POSITIONS_TO_TIER[i])
         IN  IF t.err # "none" THEN [status |-> t.err, printed |-> printed]
             ELSE TiersFrom(player_data, i + 1,
                            [printed EXCEPT ![POSITIONS_TO_TIER[i]] = t.rows])

TierStart ==
    /\ tplayers = [k \in 1..Len(TierKinds) |-> 0]
    /\ tiers = TiersNotRun

TierIdle == TierStart

\* one more player of kind k played the season
AddTierPlayer(k) ==
    /\ tiers = TiersNotRun
    /\ SeqSum(tplayers) < MaxTierPlayers
    /\ tplayers' = [tplayers EXCEPT ![k] = @ + 1]
    /\ UNCHANGED tiers
    /\ UNCHANGED otherThanTiers

\* main, lines 81-84
RunTiers ==
    /\ tiers = TiersNotRun
    /\ tiers' = TiersFrom(relevant_players(tplayers), 1, NoTiers)
    /\ UNCHANGED tplayers
    /\ UNCHANGED otherThanTiers

TiersNext ==
    \/ \E k \in 1..Len(TierKinds) : AddTierPlayer(k)
    \/ RunTiers

(***************************************************************************)
(* Seasons with thin positions, given to both the VORP calculator and the  *)
(* tier generator.                                                         *)
(***************************************************************************)
ThinVorpSeasons ==
    { <<0, 0, 0, 0, 0, 0>>, <<10, 0, 0, 0, 0, 0>>, <<6, 3, 3, 0, 0, 0>>,
      <<0, 0, 0, 1, 1, 1>>, <<0, 0, 0, 0, 0, 3>> }

ThinTierSeasons == [1..Len(TierKinds) -> {0, 1}]

ThinStart ==
    /\ vstats \in ThinVorpSeasons
    /\ vrepl = NoReplacement
    /\ vreport = VorpNotRun
    /\ tplayers \in ThinTierSeasons
    /\ tiers = TiersNotRun

ThinNext ==
    \/ RunVorp
    \/ RunTiers

(***************************************************************************)
(* apply_scoring (pipeline/utils.py) on a DataFrame: a sequence of rows    *)
(* that share their columns.  The caller's frame is adf; the call is made  *)
(* with the default column names.                                          *)
(***************************************************************************)
position_col == "pos"

out_col == "fantasy_points"

MaxTableRows == 2

\* the stat cells a row of the table can hold
TableLines ==
    { QuarterbackLine,
      [passing_yards |-> NaN, passing_tds |-> NaN, interceptions |-> NaN,
       rushing_yards |-> Num(150)] }

\* the cells of the position column
TablePositions == {Str("QB"), Str("K"), NaN}

\* a row of a frame with the given optional columns; a fantasy_points
\* column that the frame already has holds 12.34
TableRow(line, p, has_pos, has_out) ==
    [c \in DOMAIN line \cup (IF has_pos THEN {position_col} ELSE {})
                       \cup (IF has_out THEN {out_col} ELSE {}) |->
        IF c = position_col THEN p
        ELSE IF c = out_col THEN Num(1234)
        ELSE line[c]]

\* str(x) of a cell
str(cell) == IF cell.t = "str" THEN cell.s ELSE "nan"

\* _row_calc, lines 242-244; pos None is ""
_row_calc(r, s) ==
    LET p == IF position_col \in DOMAIN r THEN str(r[position_col]) ELSE ""
    IN  calculate_fantasy_points(r, p, s)

\* df[out_col] = value on one row: the column is added, or replaced
SetColumn(r, c, v) == [x \in DOMAIN r \cup {c} |-> IF x = c THEN v ELSE r[x]]

RECURSIVE FirstError(_, _)
FirstError(vals, i) ==
    IF i > Len(vals) THEN "none"
    ELSE IF ~IsOk(vals[i]) THEN vals[i].err
    ELSE FirstError(vals, i + 1)

\* apply_scoring, lines 240-248: the frame returned, or the exception of
\* the first row whose scoring raises; points are in hundredths
apply_scoring(df, s) ==
    LET vals == [i \in 1..Len(df) |-> _row_calc(df[i], s)]
    IN  IF FirstError(vals, 1) # "none"
        THEN [err |-> FirstError(vals, 1), df |-> << >>]
        ELSE [err |-> "none",
              df |-> [i \in 1..Len(df) |-> SetColumn(df[i], out_col, Num(vals[i].v))]]

\* the caller's frame after a call that assigns the column without
\* df.copy()
caller_frame_without_copy(df, res) == IF res.err = "none" THEN res.df ELSE df

\* line 246: the column is assigned on a copy, the caller's frame stays
caller_frame(df, res) == df

NotApplied == [err |-> "notcalled", df |-> << >>]

ApplyIdle ==
    /\ adf = << >>
    /\ aout = NotApplied

\* an empty frame with or without a position column and a fantasy_points
\* column; the columns show in the rows added
ApplyStart ==
    /\ row = EmptyRow
    /\ pos = ""
    /\ scoring \in CallRules
    /\ result = NotCalled
    /\ earlier = {}
    /\ ApplyIdle

otherThanApply ==
    <<waiverVars, vorpVars, matchupVars, consistencyVars, tierVars,
      playersVars, espnVars, publicVars, leagueVars>>

\* the frame holds one more row, with the columns of the rows before it
AddLine(line, p, has_pos, has_out) ==
    /\ aout = NotApplied
    /\ Len(adf) < MaxTableRows
    /\ adf # << >> => /\ has_pos = (position_col \in DOMAIN adf[1])
                      /\ has_out = (out_col \in DOMAIN adf[1])
    /\ adf' = Append(adf, TableRow(line, p, has_pos, has_out))
    /\ UNCHANGED aout
    /\ UNCHANGED scoreVars
    /\ UNCHANGED otherThanApply

\* apply_scoring(df, scoring=s) called on the frame
ApplyScoring ==
    /\ aout = NotApplied
    /\ adf # << >>
    /\ LET res == apply_scoring(adf, load_scoring(scoring))
       IN  /\ aout' = res
           /\ adf' = caller_frame(adf, res)
    /\ UNCHANGED scoreVars
    /\ UNCHANGED otherThanApply

ApplyNext ==
    \/ \E line \in TableLines, p \in TablePositions, has_pos, has_out \in BOOLEAN :
          AddLine(line, p, has_pos, has_out)
    \/ ApplyScoring

(***************************************************************************)
(* The players fetch (pipeline/fetch_players.py): main tries the private   *)
(* endpoint page by page and falls back to the public feed.  One step per  *)
(* HTTP request; what the server answers is the step's input.              *)
(***************************************************************************)
\* os.getenv of a variable: not set (None), set to the empty string, set
Unset == "<unset>"

EnvValues == {Unset, "", "secret"}

\* truth value of what os.getenv returned
Truthy(v) == v # Unset /\ v # ""

\* try_private, lines 124-125 and 130
page_size == 100

max_pages == 60

PageAttempts == 4

\* what one request of private_page gives: an exception (HTML, a network
\* error, invalid JSON), JSON that is not a list, a list of at least
\* page_size entries, a shorter list
PageOutcomes == {"error", "not_list", "full", "short"}

Absent == "absent"

\* main, lines 213-214, before anything was fetched
MainStarted ==
    [pc |-> "start", private_ok |-> FALSE, e |-> "", raw |-> "",
     public_requests |-> 0, RAW_PATH |-> Absent, SUM_PATH |-> Absent, ret |-> -1]

\* try_private's locals at line 125, with the requests made so far
TryLocals ==
    [offset |-> 0, pages |-> 0, attempt |-> 0, requests |-> 0, requested |-> -1]

PlayersStart ==
    /\ penv \in [{"SWID", "ESPN_S2"} -> EnvValues]
    /\ pmain = MainStarted
    /\ ptry = TryLocals

PlayersIdle ==
    /\ penv = [v \in {"SWID", "ESPN_S2"} |-> Unset]
    /\ pmain = MainStarted
    /\ ptry = TryLocals

otherThanPlayers ==
    <<scoreVars, waiverVars, vorpVars, matchupVars, consistencyVars, tierVars,
      applyVars, espnVars, publicVars, leagueVars>>

\* main, lines 215-220: the private pull is entered with both cookies and
\* skipped otherwise
MainBegin ==
    /\ pmain.pc = "start"
    /\ pmain' = IF Truthy(penv["SWID"]) /\ Truthy(penv["ESPN_S2"])
                   THEN [pmain EXCEPT !.pc = "try_private"]
                   ELSE [pmain EXCEPT !.pc = "public_players",
                                      !.e = "cookies not provided"]
    /\ UNCHANGED <<penv, ptry>>
    /\ UNCHANGED otherThanPlayers

\* main, lines 234-249, after a pull of the given mode returned
Written(mode) ==
    [pmain EXCEPT !.pc = "returned", !.raw = mode, !.private_ok = (mode = "private"),
                  !.RAW_PATH = mode, !.SUM_PATH = mode, !.ret = 0]

\* lines 134-136 with the offset moved on after a failed request
NextAttempt_skipping_page(t) == [t EXCEPT !.attempt = @ + 1, !.offset = @ + page_size]

\* lines 134-136: the request failed; the same page is asked for again
NextAttempt(t) == [t EXCEPT !.attempt = @ + 1]

\* one request of try_private (lines 127-146) and, when the pull ends with
\* it, the rest of main
PrivatePage(outcome) ==
    /\ pmain.pc = "try_private"
    /\ LET asked == [ptry EXCEPT !.requests = @ + 1, !.requested = ptry.offset]
       IN  CASE outcome = "error" ->
                  \* lines 134-138: slept and tried again, raised after the last
                  /\ ptry' = NextAttempt(asked)
                  /\ pmain' = IF ptry.attempt + 1 = PageAttempts
                                 THEN [pmain EXCEPT !.pc = "public_players",
                                                    !.e = "private page failed"]
                                 ELSE pmain
             [] outcome = "not_list" ->
                  \* lines 140-141
                  /\ ptry' = asked
                  /\ pmain' = [pmain EXCEPT !.pc = "public_players",
                                            !.e = "Unexpected payload (not list)"]
             [] outcome = "short" ->
                  \* lines 143-144
                  /\ ptry' = [asked EXCEPT !.pages = @ + 1]
                  /\ pmain' = Written("private")
             [] outcome = "full" ->
                  \* lines 145-146, and the end of the loop at line 127
                  /\ ptry' = [asked EXCEPT !.pages = @ + 1, !.attempt = 0,
                                           !.offset = @ + page_size]
                  /\ pmain' = IF ptry.pages + 1 = max_pages
                                 THEN Written("private") ELSE pmain
    /\ UNCHANGED penv
    /\ UNCHANGED otherThanPlayers

\* the request of public_players with no summary stub written on failure
PublicFeed_without_summary_stub(ok) ==
    /\ pmain.pc = "public_players"
    /\ pmain' = IF ok
                   THEN [Written("public") EXCEPT !.public_requests = @ + 1]
                   ELSE [pmain EXCEPT !.pc = "returned", !.public_requests = @ + 1,
                                      !.RAW_PATH = "error", !.ret = 2]
    /\ UNCHANGED <<penv, ptry>>
    /\ UNCHANGED otherThanPlayers

\* the request of public_players (lines 157-190) and the rest of main
PublicFeed(ok) ==
    /\ pmain.pc = "public_players"
    /\ pmain' = IF ok
                   THEN [Written("public") EXCEPT !.public_requests = @ + 1]
                   ELSE [pmain EXCEPT !.pc = "returned", !.public_requests = @ + 1,
                                      !.RAW_PATH = "error", !.SUM_PATH = "error",
                                      !.ret = 2]
    /\ UNCHANGED <<penv, ptry>>
    /\ UNCHANGED otherThanPlayers

PlayersNext ==
    \/ MainBegin
    \/ \E outcome \in PageOutcomes : PrivatePage(outcome)
    \/ \E ok \in BOOLEAN : PublicFeed(ok)

(***************************************************************************)
(* The league sync (pipeline/fetch_espn.py): main reads the environment,   *)
(* asks ESPN for the league and writes latest.json and status.json.        *)
(***************************************************************************)
\* the decimal strings among the values the environment is given here
Numerals == {"2025", "508419792"}

\* int(v) of a string: the number of a numeral, ValueError for the empty
\* string and for any other text
int_of(v) ==
    CASE v = "2025" -> Ok(2025)
      [] v = "508419792" -> Ok(508419792)
      [] OTHER -> Raise("ValueError")

\* os.getenv(name, default)
getenv_default(env, name, default) == IF env[name] = Unset THEN default ELSE env[name]

EspnEnvNames == {"LEAGUE_ID", "SEASON", "ESPN_SWID", "ESPN_S2"}

EspnEnvValues ==
    [LEAGUE_ID |-> {Unset, "", "508419792", "my-league"},
     SEASON |-> {Unset, "", "2025", "twenty"},
     ESPN_SWID |-> {Unset, "", "secret"},
     ESPN_S2 |-> {Unset, "", "secret"}]

EspnNotRun ==
    [pc |-> "start", raised |-> "", latest |-> Absent, status |-> Absent]

EspnStart ==
    /\ eenv \in [EspnEnvNames -> EnvValues \cup Numerals \cup {"my-league", "twenty"}]
    /\ \A n \in EspnEnvNames : eenv[n] \in EspnEnvValues[n]
    /\ emain = EspnNotRun

EspnIdle ==
    /\ eenv = [n \in EspnEnvNames |-> Unset]
    /\ emain = EspnNotRun

otherThanEspn ==
    <<scoreVars, waiverVars, vorpVars, matchupVars, consistencyVars, tierVars,
      applyVars, playersVars, publicVars, leagueVars>>

\* write_dummy, lines 20-32, and write_status, lines 11-18
write_dummy(note) ==
    [pc |-> "returned", raised |-> "", latest |-> "dummy", status |-> note]

\* main, lines 34-66; league_ok says whether League(...) and the reads of
\* its teams go through or raise
EspnMain(league_ok) ==
    /\ emain.pc = "start"
    /\ emain' =
          IF ~IsOk(int_of(getenv_default(eenv, "SEASON", "2025")))
          THEN \* line 36, outside the try
               [emain EXCEPT !.pc = "raised", !.raised = "ValueError"]
          ELSE IF ~(Truthy(eenv["LEAGUE_ID"]) /\ Truthy(eenv["ESPN_SWID"])
                        /\ Truthy(eenv["ESPN_S2"]))
          THEN write_dummy("ESPN secrets missing")
          ELSE IF ~IsOk(int_of(eenv["LEAGUE_ID"])) \/ ~league_ok
          THEN write_dummy("ESPN fetch failed")
          ELSE [pc |-> "returned", raised |-> "", latest |-> "league",
                status |-> "ESPN league sync OK"]
    /\ UNCHANGED eenv
    /\ UNCHANGED otherThanEspn

EspnNext == \E league_ok \in BOOLEAN : EspnMain(league_ok)

(***************************************************************************)
(* The public league fetch (pipeline/fetch_espn_public.py): main runs      *)
(* attempt_fetch without cookies and may run it again with cookies.  One   *)
(* step per attempt_fetch call; how its requests ended is the step's input.*)
(***************************************************************************)
\* attempt_fetch, lines 89 and 102: five core views and weeks 1..18
core_views == 5

weekly_views == 18

\* how the requests of one attempt_fetch call ended: files written, errors
\* whose text holds "403", other errors
AttemptOutcomes ==
    {o \in [files : 0..(core_views + weekly_views),
            errors_403 : 0..(core_views + weekly_views),
            errors_other : 0..(core_views + weekly_views)] :
        o.files + o.errors_403 + o.errors_other = core_views + weekly_views}

\* attempt_fetch, lines 71-114: the manifest it returns
attempt_fetch(cookies, o) ==
    [files |-> o.files, errors_403 |-> o.errors_403, errors_other |-> o.errors_other,
     used_cookies |-> cookies]

NoManifest ==
    [files |-> 0, errors_403 |-> 0, errors_other |-> 0, used_cookies |-> FALSE]

PublicEnvNames == {"LEAGUE_ID", "ESPN_SWID", "ESPN_S2"}

PublicNotRun ==
    [pc |-> "start", manifest |-> NoManifest, calls |-> << >>,
     espn_manifest |-> Absent, written |-> NoManifest, status |-> Absent]

PublicStart ==
    /\ uenv \in [PublicEnvNames -> EnvValues]
    /\ umain = PublicNotRun

PublicIdle ==
    /\ uenv = [n \in PublicEnvNames |-> Unset]
    /\ umain = PublicNotRun

otherThanPublic ==
    <<scoreVars, waiverVars, vorpVars, matchupVars, consistencyVars, tierVars,
      applyVars, playersVars, espnVars, leagueVars>>

\* get_cookies_from_env, lines 56-61: TRUE for a cookie dict, FALSE for None
get_cookies_from_env == Truthy(uenv["ESPN_SWID"]) /\ Truthy(uenv["ESPN_S2"])

\* line 130, with any() over the errors
all_403(manifest) == manifest.files = 0 /\ manifest.errors_403 > 0

\* main, lines 137-141
WriteOutputs(m, manifest) ==
    [m EXCEPT !.pc = "returned", !.manifest = manifest,
              !.espn_manifest = "manifest", !.written = manifest,
              !.status = IF manifest.files = 0 THEN "ESPN fetch failed: no files written"
                         ELSE IF manifest.errors_403 + manifest.errors_other = 0
                              THEN "ESPN fetch OK" ELSE "ESPN fetch partial"]

\* main, lines 117-134 up to the second attempt_fetch call, and lines
\* 137-141 when there is none
FirstAttempt(o) ==
    /\ umain.pc = "start"
    /\ umain' =
          IF ~Truthy(uenv["LEAGUE_ID"])
          THEN [umain EXCEPT !.pc = "returned", !.espn_manifest = "LEAGUE_ID missing",
                             !.status = "LEAGUE_ID missing; nothing fetched"]
          ELSE LET manifest == attempt_fetch(FALSE, o)
                   called == [umain EXCEPT !.calls = Append(@, manifest)]
               IN  IF all_403(manifest) /\ get_cookies_from_env
                   THEN [called EXCEPT !.pc = "retry", !.manifest = manifest]
                   ELSE WriteOutputs(called, manifest)
    /\ UNCHANGED uenv
    /\ UNCHANGED otherThanPublic

\* main, line 134 and lines 137-141
Retry(o) ==
    /\ umain.pc = "retry"
    /\ LET manifest == attempt_fetch(TRUE, o)
       IN  umain' = WriteOutputs([umain EXCEPT !.calls = Append(@, manifest)], manifest)
    /\ UNCHANGED uenv
    /\ UNCHANGED otherThanPublic

PublicNext ==
    \/ \E o \in AttemptOutcomes : FirstAttempt(o)
    \/ \E o \in AttemptOutcomes : Retry(o)

(***************************************************************************)
(* The resilient view fetch (pipeline/fetch_league.py): for each attempt   *)
(* and each host get_view sends up to three requests.  One step per HTTP   *)
(* request; what comes back is the step's input.                           *)
(***************************************************************************)
\* lines 42-45
BASE_HOSTS == << "fantasy.espn.com", "lm-api-reads.fantasy.espn.com" >>

\* get_view, lines 102-120: the request styles A, B and C
RequestStyles == 3

\* the tries argument is at most this; its default is 8 (line 127)
MaxTries == 8

\* what a request gives: a JSON response, a response of another content
\* type, an exception (of the request, or of r.json() on a broken body)
ResponseKinds == {"json", "non_json", "exception"}

\* fetch_view_resilient entered with the given tries, before any request;
\* called counts the get_view calls begun, requests the HTTP requests sent
ViewCall(tries) ==
    [tries |-> tries, pc |-> "get_view", attempt |-> 1, host |-> 1, style |-> 1,
     called |-> 1, requests |-> 0, last_err |-> "", result |-> ""]

LeagueViewStart ==
    \E tries \in 1..MaxTries : lview = ViewCall(tries)

LeagueIdle == lview = ViewCall(1)

otherThanLeague ==
    <<scoreVars, waiverVars, vorpVars, matchupVars, consistencyVars, tierVars,
      applyVars, playersVars, espnVars, publicVars>>

\* lines 137-140 with the read-only host left out
AfterFailure_primary_host_only(v, err) ==
    IF v.attempt < v.tries
    THEN [v EXCEPT !.attempt = @ + 1, !.host = 1, !.style = 1, !.called = @ + 1,
                   !.last_err = err]
    ELSE [v EXCEPT !.pc = "raised", !.last_err = err]

\* lines 137-140: a get_view call has raised; on to the next host, the next
\* attempt, or the final RuntimeError
AfterFailure(v, err) ==
    IF v.host < Len(BASE_HOSTS)
    THEN [v EXCEPT !.host = @ + 1, !.style = 1, !.called = @ + 1, !.last_err = err]
    ELSE IF v.attempt < v.tries
    THEN [v EXCEPT !.attempt = @ + 1, !.host = 1, !.style = 1, !.called = @ + 1,
                   !.last_err = err]
    ELSE [v EXCEPT !.pc = "raised", !.last_err = err]

\* one request of get_view (lines 103, 110, 118) within the loops of
\* fetch_view_resilient (lines 132-140)
Request(kind) ==
    /\ lview.pc = "get_view"
    /\ LET sent == [lview EXCEPT !.requests = @ + 1]
       IN  lview' =
             CASE kind = "json" ->
                    [sent EXCEPT !.pc = "returned", !.result = BASE_HOSTS[lview.host]]
               [] kind = "exception" -> AfterFailure(sent, "exception")
               [] kind = "non_json" ->
                    IF lview.style < RequestStyles
                    THEN [sent EXCEPT !.style = @ + 1]
                    ELSE AfterFailure(sent, "Non-JSON")
    /\ UNCHANGED otherThanLeague

LeagueViewNext == \E kind \in ResponseKinds : Request(kind)

FetchIdle == ApplyIdle /\ PlayersIdle /\ EspnIdle /\ PublicIdle /\ LeagueIdle

CallsNext ==
    \/ Score
    \/ \E r \in CallRows, p \in CallPositions : NextRow(r, p)

ScoreIdle ==
    /\ row = EmptyRow
    /\ pos = ""
    /\ scoring = "league"
    /\ result = NotCalled
    /\ earlier = {}

vars ==
    <<row, pos, scoring, result, earlier, wcsv, wres, vstats, vrepl, vreport,
      mseason, mschedule, mreport, cgames, creport,
      tplayers, tiers, adf, aout, penv, pmain, ptry,
      eenv, emain,
      uenv, umain,
      lview>>

InitScore ==
    ScoreStart /\ WaiverIdle /\ VorpIdle /\ MatchupIdle /\ ConsistencyIdle
        /\ TierIdle /\ FetchIdle

SpecScore == InitScore /\ [][ScoreNext]_vars

InitCalls ==
    CallsStart /\ WaiverIdle /\ VorpIdle /\ MatchupIdle /\ ConsistencyIdle
        /\ TierIdle /\ FetchIdle

SpecCalls == InitCalls /\ [][CallsNext]_vars

InitWaiver ==
    ScoreIdle /\ WaiverStart /\ VorpIdle /\ MatchupIdle /\ ConsistencyIdle
        /\ TierIdle /\ FetchIdle

SpecWaiver == InitWaiver /\ [][WaiverNext]_vars

InitVorp ==
    ScoreIdle /\ WaiverIdle /\ VorpStart /\ MatchupIdle /\ ConsistencyIdle
        /\ TierIdle /\ FetchIdle

SpecVorp == InitVorp /\ [][VorpNext]_vars

InitMatchup ==
    ScoreIdle /\ WaiverIdle /\ VorpIdle /\ MatchupStart /\ ConsistencyIdle
        /\ TierIdle /\ FetchIdle

SpecMatchup == InitMatchup /\ [][MatchupNext]_vars

InitConsistency ==
    ScoreIdle /\ WaiverIdle /\ VorpIdle /\ MatchupIdle /\ ConsistencyStart
        /\ TierIdle /\ FetchIdle

SpecConsistency == InitConsistency /\ [][ConsistencyNext]_vars

InitTiers ==
    ScoreIdle /\ WaiverIdle /\ VorpIdle /\ MatchupIdle /\ ConsistencyIdle
        /\ TierStart /\ FetchIdle

SpecTiers == InitTiers /\ [][TiersNext]_vars

InitThin ==
    ScoreIdle /\ WaiverIdle /\ MatchupIdle /\ ConsistencyIdle /\ ThinStart /\ FetchIdle

SpecThin == InitThin /\ [][ThinNext]_vars

InitPlayers ==
    ScoreIdle /\ WaiverIdle /\ VorpIdle /\ MatchupIdle /\ ConsistencyIdle
        /\ TierIdle /\ ApplyIdle /\ PlayersStart /\ EspnIdle /\ PublicIdle /\ LeagueIdle

SpecPlayers == InitPlayers /\ [][PlayersNext]_vars

InitApply ==
    ApplyStart /\ WaiverIdle /\ VorpIdle /\ MatchupIdle /\ ConsistencyIdle
        /\ TierIdle /\ PlayersIdle /\ EspnIdle /\ PublicIdle /\ LeagueIdle

SpecApply == InitApply /\ [][ApplyNext]_vars

InitEspn ==
    ScoreIdle /\ WaiverIdle /\ VorpIdle /\ MatchupIdle /\ ConsistencyIdle
        /\ TierIdle /\ ApplyIdle /\ PlayersIdle /\ EspnStart /\ PublicIdle /\ LeagueIdle

SpecEspn == InitEspn /\ [][EspnNext]_vars

InitPublic ==
    ScoreIdle /\ WaiverIdle /\ VorpIdle /\ MatchupIdle /\ ConsistencyIdle
        /\ TierIdle /\ ApplyIdle /\ PlayersIdle /\ EspnIdle /\ PublicStart /\ LeagueIdle

SpecPublic == InitPublic /\ [][PublicNext]_vars

InitLeagueView ==
    ScoreIdle /\ WaiverIdle /\ VorpIdle /\ MatchupIdle /\ ConsistencyIdle
        /\ TierIdle /\ ApplyIdle /\ PlayersIdle /\ EspnIdle /\ PublicIdle /\ LeagueViewStart

SpecLeagueView == InitLeagueView /\ [][LeagueViewNext]_vars

(***************************************************************************)
(* The matchup projector on a whole league (matchup_analyzer.py): one      *)
(* quarterback of the roster has met up to thirty teams, so that the       *)
(* defensive ranks run through all five bands.                             *)
(***************************************************************************)
LeagueOpponents ==
    << "ARI", "ATL", "BUF", "CAR", "CHI", "CIN", "CLE", "DAL", "DEN", "DET",
       "GB", "HOU", "IND", "JAX", "KC", "LAC", "LA", "LV", "MIA", "MIN",
       "NE", "NO", "NYG", "NYJ", "PHI", "PIT", "SEA", "SF", "TB", "TEN", "WAS" >>

LeagueQuarterback ==
    [player_display_name |-> "Lamar Jackson", position |-> "QB", recent_team |-> "BAL"]

\* the first n opponents each met once at home; the points grow with the
\* opponent, one by one or, when tied, two by two
LeagueSeason(n, tied) ==
    {SeasonRow(LeagueQuarterback, Game("BAL", LeagueOpponents[i]),
               100 * (IF tied THEN (i + 1) \div 2 ELSE i)) : i \in 1..n}

MaxOpponents == 30

LeagueStart ==
    \E n \in 1..MaxOpponents : \E k \in 1..n : \E tied \in BOOLEAN :
        /\ mseason = LeagueSeason(n, tied)
        /\ mschedule = << Game(LeagueOpponents[k], "BAL") >>
        /\ mreport = MatchupNotRun

LeagueNext == RunMatchup

InitLeague ==
    ScoreIdle /\ WaiverIdle /\ VorpIdle /\ LeagueStart /\ ConsistencyIdle
        /\ TierIdle /\ FetchIdle

SpecLeague == InitLeague /\ [][LeagueNext]_vars

(***************************************************************************)
(* Claims about the scoring engine, checked under SpecScore.               *)
(***************************************************************************)
Called == result # NotCalled

\* the rules of the run
Rules == load_scoring(scoring)

PosColumnSet == {PosColumns[i] : i \in 1..Len(PosColumns)}

\* every stat column of the row is zero or null (absent columns are not in the row)
AllZeroRow(r) ==
    \A f \in DOMAIN r \ PosColumnSet :
        r[f].t = "nan" \/ (r[f].t = "num" /\ r[f].v = 0)

\* C1 as stated: a row whose stats are all zero or absent scores 0.00 at
\* every position, DST included.
C1_Original ==
    (IsOk(result) /\ AllZeroRow(row)) => result.v = 0

\* C1 as amended: a row whose stats are all zero or absent scores 0.00 at
\* every position other than DST; a DST row scores the points-allowed bucket
\* value of 0 plus the yards-allowed bucket value of 0.
C1_ZeroRow ==
    (IsOk(result) /\ AllZeroRow(row)) =>
        IF PositionOf(row, pos) = "DST"
        THEN result.v = Round2(_bucket_score(0, Rules["dst"]["points_allowed"]).v
                               + _bucket_score(0, Rules["dst"]["yards_allowed"]).v)
        ELSE result.v = 0

C1_Witness ==
    /\ IsOk(result)
    /\ AllZeroRow(row)
    /\ DOMAIN row = {"points_allowed", "sacks"}
    /\ PositionOf(row, pos) = "DST"
    /\ result.v = 1000

C1_WitnessSkill ==
    /\ IsOk(result)
    /\ AllZeroRow(row)
    /\ DOMAIN row = {"passing_yards", "rushing_yards"}
    /\ PositionOf(row, pos) = "QB"
    /\ result.v = 0

C2_Row ==
    [f \in {"points_allowed", "sacks", "interceptions"} |->
        CASE f = "points_allowed" -> Num(13)
          [] f = "sacks" -> Num(2)
          [] f = "interceptions" -> Num(1)]

\* C2 as stated: the DST row points_allowed=13, sacks=2, interceptions=1
\* scores 3 + 2 + 2 = 7.00 under rules with sack 1, interception 2 and a
\* [7,13] points-allowed bucket worth 3.
C2_Example ==
    (IsOk(result) /\ row = C2_Row /\ PositionOf(row, pos) = "DST") => result.v = 700

RushBonusFloor == 100
PassBonusFloor == 400
RecBonusFloor == 200

\* the rules with every threshold bonus removed
StripBonuses(s) ==
    [s EXCEPT !["offense"]["passing"] = Without(@, "bonus_400_plus_yards"),
              !["offense"]["rushing"] = Without(@, "bonus_100_to_199_yards"),
              !["offense"]["receiving"] = Without(@, "bonus_200_plus_yards")]

\* the bonuses a row is due: one per phase whose yardage meets its floor
BonusesDue(r, s) ==
    (IF _g(r, ALIAS.pass_yds) >= PassBonusFloor
     THEN GetOr0(s["offense"]["passing"], "bonus_400_plus_yards") ELSE 0)
    + (IF _g(r, ALIAS.rush_yds) >= RushBonusFloor
       THEN GetOr0(s["offense"]["rushing"], "bonus_100_to_199_yards") ELSE 0)
    + (IF _g(r, ALIAS.rec_yds) >= RecBonusFloor
       THEN GetOr0(s["offense"]["receiving"], "bonus_200_plus_yards") ELSE 0)

\* C3 as stated: the score of a skill row holds each phase's bonus exactly
\* once when that phase's yardage meets its floor (rushing_yards = 250
\* included) and not at all otherwise.
C3_Original ==
    (IsOk(result) /\ PositionOf(row, pos) \notin {"DST", "K"}) =>
        result.v - calculate_fantasy_points(row, pos, StripBonuses(Rules)).v
            = Round2(BonusesDue(row, Rules))

\* the offensive calculators read a weight that the rules lack: a linear
\* weight (always read), or a bonus value the row's yardage asks for
ReadsMissingWeight(r, s) ==
    \/ \E sec \in DOMAIN LeagueScoring["offense"] :
          \E k \in DOMAIN LeagueScoring["offense"][sec] :
              /\ ~HasKey(s["offense"][sec], k)
              /\ k \notin {"bonus_400_plus_yards", "bonus_100_to_199_yards",
                            "bonus_200_plus_yards"}
    \/ /\ ~HasKey(s["offense"]["passing"], "bonus_400_plus_yards")
       /\ _g(r, ALIAS.pass_yds) >= 400
    \/ /\ ~HasKey(s["offense"]["rushing"], "bonus_100_to_199_yards")
       /\ _g(r, ALIAS.rush_yds) >= 100 /\ _g(r, ALIAS.rush_yds) < 200
    \/ /\ ~HasKey(s["offense"]["receiving"], "bonus_200_plus_yards")
       /\ _g(r, ALIAS.rec_yds) >= 200

\* C4 as stated: when the rules lack a weight that scoring the row reads (a
\* linear weight or a bonus value), scoring raises and returns no score.
C4_Original ==
    (Called /\ PositionOf(row, pos) \notin {"DST", "K"} /\ ReadsMissingWeight(row, Rules))
        => ~IsOk(result)

\* a bucket's range contains the value; an absent bound is unbounded
InRange(b, value) ==
    /\ HasKey(b, "min") => b["min"] <= value
    /\ HasKey(b, "max") => value <= b["max"]

RECURSIVE FirstInRange(_, _, _)
FirstInRange(value, buckets, i) ==
    IF i > Len(buckets) THEN 0
    ELSE IF InRange(buckets[i], value) THEN buckets[i]["points"]
    ELSE FirstInRange(value, buckets, i + 1)

\* C8 as stated: the bucket lookup returns the points of the first bucket in
\* list order whose inclusive range contains the value (an absent bound is
\* unbounded) and 0 when there is none, for both DST tables.
C8_Original ==
    (Called /\ PositionOf(row, pos) = "DST") =>
        \A tbl \in {"points_allowed", "yards_allowed"} :
            _bucket_score(_g(row, ALIAS[tbl]), Rules["dst"][tbl])
                = Ok(FirstInRange(_g(row, ALIAS[tbl]), Rules["dst"][tbl], 1))

(***************************************************************************)
(* Claims about the hard-coded waiver-wire tables, checked under           *)
(* SpecWaiver.                                                             *)
(***************************************************************************)
NumTrue(bools) == Cardinality({i \in 1..Len(bools) : bools[i]})

\* C9 as stated: in both hard-coded points-allowed tables every
\* points_allowed value n >= 0 satisfies exactly one bucket condition.
C9_Original ==
    (/\ wres.data # NotCalled
     /\ wres.analysis # NotCalled
     /\ "points_allowed" \in DOMAIN read_csv(wcsv)
     /\ read_csv(wcsv)["points_allowed"].t = "num"
     /\ read_csv(wcsv)["points_allowed"].v >= 0)
        => /\ NumTrue(conditions_pa(read_csv(wcsv)["points_allowed"])) = 1
           /\ NumTrue(conditions(read_csv(wcsv)["points_allowed"])) = 1

\* the frame with every missing statistic column added and every NaN
\* statistic replaced, both as 0
ZeroFilled(r) ==
    [c \in DOMAIN r \cup WaiverStatColumns |->
        IF c \in WaiverStatColumns
        THEN (IF c \in DOMAIN r /\ r[c].t = "num" THEN r[c] ELSE Num(0))
        ELSE r[c]]

\* C10 as stated: a missing or null statistic contributes exactly zero: the
\* script returns a number, the one it returns with the statistic present
\* as 0, and neither raises nor yields NaN.
C10_Original ==
    /\ wres.data # NotCalled =>
          /\ IsOk(wres.data)
          /\ wres.data = data_calculate_fantasy_points(ZeroFilled(read_csv(wcsv)))
    /\ wres.analysis # NotCalled =>
          /\ IsOk(wres.analysis)
          /\ wres.analysis = analysis_calculate_fantasy_points(ZeroFilled(read_csv(wcsv)))

(***************************************************************************)
(* Claims about the VORP calculator, checked under SpecVorp.               *)
(***************************************************************************)
KindsAt(p) == {k \in 1..Len(PlayerKinds) : PlayerKinds[k].position = p}

RECURSIVE CountOver(_, _)
CountOver(stats, ks) ==
    IF ks = {} THEN 0
    ELSE LET k == CHOOSE x \in ks : TRUE
         IN  stats[k] + CountOver(stats, ks \ {k})

PlayersAt(p) == CountOver(vstats, KindsAt(p))

\* the ppg held by the player at 1-indexed rank n of position p, best first
PpgAtRank(p, n) ==
    LET held == {k \in KindsAt(p) : vstats[k] > 0}
        better(k) == {j \in held : PlayerKinds[j].ppg > PlayerKinds[k].ppg}
        k == CHOOSE x \in held :
                /\ CountOver(vstats, better(x)) < n
                /\ CountOver(vstats, better(x)) + vstats[x] >= n
    IN  PlayerKinds[k].ppg

\* how many records of the report are the given one
Records(rec) ==
    Cardinality({i \in 1..Len(vreport.players) : vreport.players[i] = rec})

RecordsAt(p) ==
    Cardinality({i \in 1..Len(vreport.players) : vreport.players[i].position = p})

\* C5: a position with at least N players (exactly N included) takes the ppg
\* of the player at rank N as its replacement value, and every player's VORP
\* is ppg minus that value; a position with fewer than N players takes zero.
C5_Original ==
    vreport.run =>
        \A p \in DOMAIN REPLACEMENT_LEVELS :
            IF PlayersAt(p) >= REPLACEMENT_LEVELS[p]
                THEN LET rv == PpgAtRank(p, REPLACEMENT_LEVELS[p])
                     IN  /\ vrepl[p] = rv
                         /\ \A k \in KindsAt(p) :
                               Records([position |-> p,
                                        ppg |-> Round2(PlayerKinds[k].ppg),
                                        vorp |-> Round2(PlayerKinds[k].ppg - rv)]) = vstats[k]
                ELSE vrepl[p] = 0

Ranked11 == {p \in DOMAIN REPLACEMENT_LEVELS : REPLACEMENT_LEVELS[p] = 11}

\* C6: with a replacement rank of 11 and exactly 10 players at a position,
\* the replacement value is 0, all 10 players are in the output, and each
\* player's VORP is their own ppg.
C6_TenPlayers ==
    vreport.run =>
        \A p \in Ranked11 :
            PlayersAt(p) = 10 =>
                /\ vrepl[p] = 0
                /\ RecordsAt(p) = 10
                /\ \A k \in KindsAt(p) :
                      Records([position |-> p,
                               ppg |-> Round2(PlayerKinds[k].ppg),
                               vorp |-> Round2(PlayerKinds[k].ppg)]) = vstats[k]

\* the report of a season with exactly 10 quarterbacks of differing ppg
C6_Witness ==
    /\ vreport.run
    /\ PlayersAt("QB") = 10
    /\ Cardinality({k \in KindsAt("QB") : vstats[k] > 0}) = 3
    /\ Len(vreport.players) > 10

(***************************************************************************)
(* Claims about the matchup projector, checked under SpecMatchup.          *)
(***************************************************************************)
Bands == {"Great", "Good", "Average", "Bad", "Very Bad"}

\* the team a roster name plays for, by the season's active lines
TeamsOf(name) ==
    {p.recent_team : p \in {q \in player_ppg(mseason) : q.player_display_name = name}}

\* the opponents the upcoming week gives a team
NextOpponents(team) ==
    {mschedule[i].away_team : i \in {j \in 1..Len(mschedule) : mschedule[j].home_team = team}}
        \cup
    {mschedule[i].home_team : i \in {j \in 1..Len(mschedule) : mschedule[j].away_team = team}}

\* no game for the player's team in the upcoming week
NoGame(name) == \A t \in TeamsOf(name) : NextOpponents(t) = {}

\* the player's opponent allowed no recorded points to the player's position
NoDefRank(name) ==
    \A q \in {x \in player_ppg(mseason) : x.player_display_name = name} :
        \A o \in NextOpponents(q.recent_team) :
            ~\E r \in mseason : opponent(r) = o /\ r.position = q.position

\* C7: the entry of a roster player with no upcoming game, or whose opponent
\* has no defensive rank for the position, has a rating outside the five
\* bands and a projection that is not a number.
C7_Original ==
    mreport.status = "written" =>
        \A i \in 1..Len(mreport.matchups) :
            LET e == mreport.matchups[i]
            IN  (NoGame(e.player) \/ NoDefRank(e.player)) =>
                    /\ e.rating \notin Bands
                    /\ e.projection.t # "num"

(***************************************************************************)
(* More claims about the scoring engine, checked under SpecScore.          *)
(***************************************************************************)
\* the position string the call is given: the argument, else the first
\* position column holding a non-empty string, else none
GivenPosition ==
    IF pos # "" THEN pos
    ELSE LET named == {i \in 1..Len(PosColumns) :
                          /\ PosColumns[i] \in DOMAIN row
                          /\ row[PosColumns[i]].t = "str"
                          /\ row[PosColumns[i]].s # ""}
         IN  IF named = {} THEN ""
             ELSE row[PosColumns[CHOOSE i \in named : \A j \in named : i <= j]].s

Family ==
    IF GivenPosition \in {"DST", "dst"} THEN "dst"
    ELSE IF GivenPosition \in {"K", "k"} THEN "k"
    ELSE "skill"

\* rules that hold every weight and only bounded buckets
CompleteRules == {"league", "plain"}

\* C11: a K row scores the kicking sum, a DST row the defense sum, and every
\* other position string (unknown and empty included) the sum of passing,
\* rushing, receiving and turnovers/returns, whatever stats are populated;
\* choosing the family never raises.
C11_Family ==
    Called =>
        /\ result = RoundRes(
                CASE Family = "dst" -> _score_dst(row, Rules)
                  [] Family = "k" -> _score_kicker(row, Rules)
                  [] OTHER -> SumTerms(<<_score_passing(row, Rules),
                                         _score_rushing(row, Rules),
                                         _score_receiving(row, Rules),
                                         _score_turnovers_and_returns(row, Rules)>>))
        /\ scoring \in CompleteRules => IsOk(result)

\* an unknown position string scored on a row that holds defensive and
\* passing stats: the passing points only
C11_Witness ==
    /\ pos = "nan"
    /\ scoring = "league"
    /\ DOMAIN row = {"points_allowed", "passing_yards", "sacks"}
    /\ row["passing_yards"] = Num(400)
    /\ row["sacks"] = Num(2)
    /\ result = Ok(2100)

(***************************************************************************)
(* Claims about consecutive calls, checked under SpecCalls.                *)
(***************************************************************************)
\* passing yards 0.05 a yard, passing TD 4, interception -2, rushing yards
\* 0.1 a yard
ExampleWeights(s) ==
    /\ GetOr0(s["offense"]["passing"], "yards_per") = 50
    /\ GetOr0(s["offense"]["passing"], "td") = 4000
    /\ GetOr0(s["offense"]["passing"], "int") = -2000
    /\ GetOr0(s["offense"]["rushing"], "yards_per") = 100

\* C12: under those weights the QB row passing_yards 320, passing_tds 3,
\* interceptions 1, rushing_yards 20 scores 16 + 12 - 2 + 2 = 28.00.
C12_Example ==
    (Called /\ row = QuarterbackLine /\ pos = "QB" /\ ExampleWeights(Rules))
        => result = Ok(2800)

C12_Witness ==
    /\ row = QuarterbackLine
    /\ pos = "QB"
    /\ scoring = "league"
    /\ result = Ok(2800)
    /\ earlier # {}

LinesWith(i, Keep(_)) ==
    SumOver(cgames[i], {k \in 1..Len(GameKinds) : Keep(GameKinds[k])})

Windowed(g) == g.season \in {2022, 2023, 2024}

GamesOf(i) == LinesWith(i, Windowed)

\* the records the report holds for player i
RecordsOf(i) ==
    {j \in 1..Len(creport.players) :
        creport.players[j].player_id = ConsistencyPlayers[i].player_id}

FloorOf(p) ==
    CASE p = "QB" -> 1500 [] p = "RB" -> 1000 [] p = "WR" -> 1000 [] p = "TE" -> 800
      [] OTHER -> -1

\* C15: consistency is (games at or above the position's floor) / (games
\* played) * 100, is 0 for a position with no floor, and lies in [0, 100].
C15_Percentage ==
    creport.run =>
        \A i \in 1..Len(ConsistencyPlayers) : \A j \in RecordsOf(i) :
            LET p == ConsistencyPlayers[i].position
                AtFloor(g) == Windowed(g) /\ g.fantasy_points_custom >= FloorOf(p)
                pct == creport.players[j].consistency_pct
            IN  /\ pct = IF FloorOf(p) < 0 THEN 0
                         ELSE RoundFrac(Frac(LinesWith(i, AtFloor) * 10000, GamesOf(i)))
                /\ pct >= 0
                /\ pct <= 10000

\* a report with a quarterback whose share is 5 of 8 games, one game exactly
\* at the floor among them, and a kicker at 0
C15_Witness ==
    /\ creport.run
    /\ \E j \in 1..Len(creport.players) :
          /\ creport.players[j].position = "QB"
          /\ creport.players[j].games_played = 8
          /\ creport.players[j].consistency_pct = 6250
    /\ \E j \in 1..Len(creport.players) :
          /\ creport.players[j].position = "K"
          /\ creport.players[j].consistency_pct = 0

\* record a may stand before record b: position ascending, then consistency
\* descending, then mean points descending
InOrder(a, b) ==
    \/ PositionIndex(a.position) < PositionIndex(b.position)
    \/ /\ a.position = b.position
       /\ \/ a.consistency_pct > b.consistency_pct
          \/ /\ a.consistency_pct = b.consistency_pct
             /\ a.mean_ppg >= b.mean_ppg

\* C16: every two adjacent records of the report are in that order.
C16_Sorted ==
    creport.run =>
        \A j \in 1..(Len(creport.players) - 1) :
            InOrder(creport.players[j], creport.players[j + 1])

\* a report with a kicker and two quarterbacks of equal consistency and
\* different mean points
C16_Witness ==
    /\ creport.run
    /\ Len(creport.players) = 3
    /\ creport.players[1].position = "K"
    /\ creport.players[2].consistency_pct = creport.players[3].consistency_pct
    /\ creport.players[2].mean_ppg > creport.players[3].mean_ppg

(***************************************************************************)
(* Claims about the draft tier generator, checked under SpecTiers.         *)
(***************************************************************************)
TieredPositions == {POSITIONS_TO_TIER[i] : i \in 1..Len(POSITIONS_TO_TIER)}

\* the players of position p in the season
TierPlayersAt(p) == WherePosition(relevant_players(tplayers), p)

\* C17: with 6 tiers every player of a tiered position gets exactly one
\* tier, and it is in 1..6, whatever the population (a single player and
\* players of identical ppg included).
C17_TierRange ==
    tiers # TiersNotRun =>
        /\ tiers.status = "done"
        /\ \A p \in TieredPositions :
              /\ Len(tiers.printed[p]) = Len(TierPlayersAt(p))
              /\ \A j \in 1..Len(tiers.printed[p]) :
                    /\ tiers.printed[p][j].ppg = TierPlayersAt(p)[j].ppg
                    /\ tiers.printed[p][j].tier \in 1..6

\* the tiers of two quarterbacks of identical ppg and of a lone running back
C17_Witness ==
    /\ tiers.status = "done"
    /\ Len(tiers.printed["QB"]) = 2
    /\ tiers.printed["QB"][1].ppg = tiers.printed["QB"][2].ppg
    /\ Len(tiers.printed["RB"]) = 1
    /\ tiers.printed["RB"][1].tier \in 1..6

\* C18: a player's tier is the lowest index whose boundary the ppg meets or
\* exceeds, the last tier when it meets none; so a higher ppg never has a
\* higher-numbered tier than a lower ppg of the same position.
C18_LowestTier ==
    tiers.status = "done" =>
        \A p \in TieredPositions :
            LET rows == tiers.printed[p]
                met(x) == {i \in 1..6 : meets_threshold(x, i, TierPlayersAt(p))}
            IN  /\ \A j \in 1..Len(rows) :
                      /\ met(rows[j].ppg) # {} =>
                            /\ rows[j].tier \in met(rows[j].ppg)
                            /\ \A i \in met(rows[j].ppg) : rows[j].tier <= i
                      /\ met(rows[j].ppg) = {} => rows[j].tier = 6
                /\ \A j, k \in 1..Len(rows) :
                      rows[j].ppg > rows[k].ppg => rows[j].tier <= rows[k].tier

\* quarterbacks in three different tiers, one of them past the first boundary
\* it could meet
C18_Witness ==
    /\ tiers.status = "done"
    /\ \E j, k, l \in 1..Len(tiers.printed["QB"]) :
          /\ tiers.printed["QB"][j].tier = 1
          /\ tiers.printed["QB"][k].tier > 1
          /\ tiers.printed["QB"][l].tier > tiers.printed["QB"][k].tier
          /\ tiers.printed["QB"][k].tier < 6

(***************************************************************************)
(* Claim about thin populations, checked under SpecThin.                   *)
(***************************************************************************)
\* C19: a thin population aborts neither run: a position without players
\* gets an empty tier set and the other positions are still tiered; a
\* position with fewer players than its replacement rank (none included)
\* gets replacement value 0 and all of its players are reported.
C19_ThinPopulation ==
    /\ tiers # TiersNotRun =>
          /\ tiers.status = "done"
          /\ \A p \in TieredPositions :
                Len(tiers.printed[p]) = Len(TierPlayersAt(p))
    /\ vreport.run =>
          \A p \in DOMAIN REPLACEMENT_LEVELS :
              PlayersAt(p) < REPLACEMENT_LEVELS[p] =>
                  /\ vrepl[p] = 0
                  /\ RecordsAt(p) = PlayersAt(p)

\* both runs done on seasons without a quarterback: the running back is
\* tiered and the tight end and the running back are reported
C19_Witness ==
    /\ tiers.status = "done"
    /\ vreport.run
    /\ TierPlayersAt("QB") = << >>
    /\ Len(tiers.printed["RB"]) = 1
    /\ PlayersAt("QB") = 0
    /\ Len(vreport.players) = 2

(***************************************************************************)
(* More claims about the matchup projector, checked under SpecMatchup.     *)
(***************************************************************************)
\* the mean of the points that the lines against a team hold for a position
MeanAllowed(team, p) ==
    MeanPoints({r \in mseason : opponent(r) = team /\ r.position = p})

\* the teams that the season's lines of a position were played against
TeamsFaced(p) == {opponent(r) : r \in {x \in mseason : x.position = p}}

\* C20: the rank of a team within a position is the number of teams of
\* that position whose mean points allowed is at least its own: descending
\* order, ties sharing the largest ordinal among them.
C20_RankMax ==
    mreport.status = "written" =>
        \A i \in 1..Len(mreport.matchups) :
            LET e == mreport.matchups[i]
            IN  e.details.rank > 0 =>
                    e.details.rank =
                        Cardinality({t \in TeamsFaced(e.position) :
                            FracGe(MeanAllowed(t, e.position),
                                   MeanAllowed(e.opponent, e.position))})

\* an opponent tied with another team on the mean allowed, both ranked 2,
\* the only two teams faced at the position
C20_Witness ==
    /\ mreport.status = "written"
    /\ \E i \in 1..Len(mreport.matchups) :
          LET e == mreport.matchups[i]
          IN  /\ e.details.rank = 2
              /\ Cardinality(TeamsFaced(e.position)) = 2
              /\ \A t \in TeamsFaced(e.position) :
                    MeanAllowed(t, e.position) = e.ppg_allowed

\* C21: the opponent derived for a line of the season table is one of the
\* two teams of the line's game and is not the player's own team.
C21_Opponent ==
    \A r \in mseason :
        /\ opponent(r) \in {r.home_team, r.away_team}
        /\ opponent(r) # r.recent_team

\* a report written from a season with a line of a home player, whose
\* opponent is the away team, and a line of an away player
C21_Witness ==
    /\ mreport.status = "written"
    /\ \E r \in mseason : r.recent_team = r.home_team /\ opponent(r) = r.away_team
    /\ \E r \in mseason : r.recent_team = r.away_team /\ opponent(r) = r.home_team

(***************************************************************************)
(* Claims about the matchup projector, checked under SpecLeague.           *)
(***************************************************************************)
\* the place of a band, best first
BandIndex(rating) ==
    CASE rating = "Great" -> 1
      [] rating = "Good" -> 2
      [] rating = "Average" -> 3
      [] rating = "Bad" -> 4
      [] rating = "Very Bad" -> 5

\* the entries of the report that carry a defensive rank
RankedEntries ==
    {mreport.matchups[i] : i \in {j \in 1..Len(mreport.matchups) :
                                      mreport.matchups[j].details.rank > 0}}

\* C22: an entry whose opponent has a defensive rank r is rated Great for
\* r <= 5, Good for 5 < r <= 12, Average for 12 < r <= 20, Bad for
\* 20 < r <= 28 and Very Bad above; a larger rank never has a better band.
C22_Bands ==
    /\ \A e \in RankedEntries :
          LET r == e.details.rank
          IN  /\ e.rating \in Bands
              /\ (e.rating = "Great") <=> (r <= 5)
              /\ (e.rating = "Good") <=> (5 < r /\ r <= 12)
              /\ (e.rating = "Average") <=> (12 < r /\ r <= 20)
              /\ (e.rating = "Bad") <=> (20 < r /\ r <= 28)
              /\ (e.rating = "Very Bad") <=> (28 < r)
    /\ \A e \in RankedEntries :
          \A r \in 1..e.details.rank :
              BandIndex(rating_of(r)) <= BandIndex(e.rating)

\* an opponent ranked 29th of 30 teams, rated Very Bad
C22_Witness ==
    /\ mreport.status = "written"
    /\ \E e \in RankedEntries :
          /\ e.details.rank = 29
          /\ e.rating = "Very Bad"
          /\ Cardinality(TeamsFaced(e.position)) = 30

(***************************************************************************)
(* Claims about the players fetch, checked under SpecPlayers.              *)
(***************************************************************************)
\* C23: when main has returned, players_raw.json and players_summary.json
\* are both written: from the private pull when it succeeded, from the
\* public feed when the private pull was skipped or failed, as error stubs
\* when the public feed failed too; the public feed is requested only after
\* the private pull was skipped or failed.
C23_BothFiles ==
    /\ pmain.pc = "returned" =>
          /\ pmain.RAW_PATH # Absent
          /\ pmain.SUM_PATH # Absent
          /\ pmain.SUM_PATH = pmain.RAW_PATH
          /\ pmain.private_ok => pmain.RAW_PATH = "private" /\ pmain.ret = 0
          /\ ~pmain.private_ok =>
                /\ pmain.public_requests = 1
                /\ pmain.RAW_PATH \in {"public", "error"}
                /\ (pmain.RAW_PATH = "error") <=> (pmain.ret = 2)
    /\ pmain.pc = "public_players" \/ pmain.public_requests > 0 =>
          /\ ~pmain.private_ok
          /\ pmain.e # ""
          /\ pmain.e = "cookies not provided" <=> ptry.requests = 0

\* the private pull failed on its second page and the public feed failed
\* too: both files hold error stubs
C23_Witness ==
    /\ pmain.pc = "returned"
    /\ pmain.e = "private page failed"
    /\ ptry.requested = page_size
    /\ pmain.RAW_PATH = "error"
    /\ pmain.SUM_PATH = "error"
    /\ pmain.ret = 2

(***************************************************************************)
(* Claims about the league sync, checked under SpecEspn.                   *)
(***************************************************************************)
\* C24: whatever the environment holds and whatever the ESPN call does,
\* main finishes without raising and has written latest.json and
\* status.json.
C24_Original ==
    emain.pc # "start" =>
        /\ emain.pc = "returned"
        /\ emain.raised = ""
        /\ emain.latest # Absent
        /\ emain.status # Absent

(***************************************************************************)
(* Claims about the public league fetch, checked under SpecPublic.         *)
(***************************************************************************)
\* C25: with a league id, attempt_fetch runs first without cookies and a
\* second time, with cookies, only when the first run wrote no file, all of
\* its errors were 403 responses and both cookie secrets are set; it never
\* runs a third time, and the manifest written is that of the last run.
C25_Original ==
    Truthy(uenv["LEAGUE_ID"]) /\ umain.pc # "start" =>
        /\ Len(umain.calls) \in {1, 2}
        /\ ~umain.calls[1].used_cookies
        /\ Len(umain.calls) = 2 \/ umain.pc = "retry" =>
              /\ umain.calls[1].files = 0
              /\ umain.calls[1].errors_403 > 0
              /\ umain.calls[1].errors_other = 0
              /\ Truthy(uenv["ESPN_SWID"]) /\ Truthy(uenv["ESPN_S2"])
        /\ Len(umain.calls) = 2 => umain.calls[2].used_cookies
        /\ umain.pc = "returned" =>
              /\ umain.espn_manifest = "manifest"
              /\ umain.written = umain.calls[Len(umain.calls)]

(***************************************************************************)
(* Claims about the resilient view fetch, checked under SpecLeagueView.    *)
(***************************************************************************)
\* the get_view calls begun, in attempt-major and host-minor order, are
\* numbered from 1: the call of (attempt, host) is this one
CallNumber(attempt, host) == Len(BASE_HOSTS) * (attempt - 1) + host

C26_State ==
    /\ lview.attempt \in 1..lview.tries
    /\ lview.host \in 1..Len(BASE_HOSTS)
    /\ lview.called = CallNumber(lview.attempt, lview.host)
    /\ lview.requests <= RequestStyles * lview.called
    /\ lview.requests <= lview.tries * Len(BASE_HOSTS) * RequestStyles
    /\ lview.pc = "get_view" => lview.requests < RequestStyles * lview.called
    /\ lview.pc = "returned" =>
          /\ lview.result = BASE_HOSTS[lview.host]
          /\ lview.requests >= 1
    /\ lview.pc = "raised" =>
          /\ lview.called = lview.tries * Len(BASE_HOSTS)
          /\ lview.requests >= lview.called
          /\ lview.last_err # ""
          /\ lview.result = ""

C26_Step ==
    /\ lview.pc = "get_view"
    /\ lview'.requests = lview.requests + 1
    /\ lview'.called \in {lview.called, lview.called + 1}
    /\ lview'.called = lview.called + 1 =>
          /\ lview'.last_err # ""
          /\ \/ lview'.attempt = lview.attempt /\ lview'.host = lview.host + 1
             \/ /\ lview'.attempt = lview.attempt + 1
                /\ lview.host = Len(BASE_HOSTS)
                /\ lview'.host = 1
    /\ lview'.pc = "returned" => lview'.called = lview.called

\* C26: get_view is called in attempt-major, host-minor order; the first
\* call that yields JSON ends the fetch with its result and no request
\* follows it; RuntimeError is raised only after tries x 2 failed calls; at
\* most tries x 2 x 3 requests are sent.
C26_Resilient == []C26_State /\ [][C26_Step]_vars

\* eight tries, every request answered with something that is not JSON:
\* raised after 16 calls and 48 requests
C26_Witness ==
    /\ lview.pc = "raised"
    /\ lview.tries = 8
    /\ lview.called = 16
    /\ lview.requests = 48

(***************************************************************************)
(* More claims about the players fetch, checked under SpecPlayers.         *)
(***************************************************************************)
C27_State ==
    /\ ptry.offset \in {page_size * ptry.pages, page_size * (ptry.pages - 1)}
    /\ ptry.pages <= max_pages
    /\ ptry.attempt <= PageAttempts
    /\ ptry.requests <= PageAttempts * max_pages
    /\ ptry.requests <= PageAttempts * ptry.pages + ptry.attempt
                          + (IF pmain.e = "Unexpected payload (not list)" THEN 1 ELSE 0)
    /\ ptry.requests >= ptry.pages
    /\ ptry.requested <= page_size * (max_pages - 1)
    /\ pmain.pc = "try_private" =>
          /\ ptry.offset = page_size * ptry.pages
          /\ ptry.pages < max_pages
          /\ ptry.attempt < PageAttempts
          /\ ptry.requested \in {-1, ptry.offset, ptry.offset - page_size}
    /\ pmain.e = "private page failed" => ptry.attempt = PageAttempts

\* a step that changes try_private's locals is one page request; it asks
\* for the offset of the page after the last one received, and the offset
\* asked for grows only past a page that was received
C27_Step ==
    ptry' # ptry =>
        /\ pmain.pc = "try_private"
        /\ ptry'.requests = ptry.requests + 1
        /\ ptry'.requested = page_size * ptry.pages
        /\ ptry'.requested >= ptry.requested
        /\ ptry'.pages \in {ptry.pages, ptry.pages + 1}
        /\ ptry'.pages = ptry.pages =>
              \/ ptry'.attempt = ptry.attempt + 1
              \/ pmain'.e = "Unexpected payload (not list)"
        /\ ptry'.pages = ptry.pages + 1 /\ ptry'.offset = ptry.offset =>
              pmain'.pc = "returned"
        /\ ptry'.attempt = PageAttempts => pmain'.pc # "try_private"

\* C27: try_private asks for the offsets 0, 100, 200, ... in order, for a
\* page only after the page before it was received, at most 4 times for a
\* page, for no page after a short one and for at most 60 pages: at most
\* 240 requests, after which it has ended.
C27_Pagination == []C27_State /\ [][C27_Step]_vars

\* sixty full pages, each received at the fourth request
C27_Witness ==
    /\ pmain.pc = "returned"
    /\ pmain.private_ok
    /\ ptry.pages = max_pages
    /\ ptry.requests = PageAttempts * max_pages
    /\ ptry.requested = page_size * (max_pages - 1)

(***************************************************************************)
(* More claims about the tier generator, checked under SpecTiers.          *)
(***************************************************************************)
\* C28: in every position with players, a single player included, each
\* player whose ppg is the highest of the position is in tier 1.
C28_Original ==
    tiers.status = "done" =>
        \A p \in TieredPositions :
            LET rows == tiers.printed[p]
            IN  \A j \in 1..Len(rows) :
                    (\A k \in 1..Len(rows) : rows[k].ppg <= rows[j].ppg) =>
                        rows[j].tier = 1

(***************************************************************************)
(* Claims about apply_scoring on a frame, checked under SpecApply.         *)
(***************************************************************************)
\* the position argument that the call on a row of the frame is given
PosOfRow(r) == IF "pos" \in DOMAIN r THEN str(r["pos"]) ELSE ""

\* what scoring the i-th row of the caller's frame gives
RowPoints(i) == calculate_fantasy_points(adf[i], PosOfRow(adf[i]), Rules)

AllRowsScore == \A i \in 1..Len(adf) : IsOk(RowPoints(i))

\* the frame returned has the rows of the caller's frame in their order,
\* every column of it with its value, and the points of each row
SameRowsWithPoints ==
    /\ aout.err = "none"
    /\ Len(aout.df) = Len(adf)
    /\ \A i \in 1..Len(adf) :
          /\ DOMAIN adf[i] \subseteq DOMAIN aout.df[i]
          /\ \A c \in DOMAIN adf[i] \ {"fantasy_points"} : aout.df[i][c] = adf[i][c]
          /\ "fantasy_points" \in DOMAIN aout.df[i]
          /\ aout.df[i]["fantasy_points"] = Num(RowPoints(i).v)

\* C29 as stated, for frames whose rows all score: the frame returned has
\* the same rows plus exactly one added column.
C29_Original ==
    (aout # NotApplied /\ AllRowsScore) =>
        /\ SameRowsWithPoints
        /\ \A i \in 1..Len(adf) :
              /\ DOMAIN aout.df[i] # DOMAIN adf[i]
              /\ Cardinality(DOMAIN aout.df[i] \ DOMAIN adf[i]) = 1
              /\ \A c \in DOMAIN adf[i] : aout.df[i][c] = adf[i][c]

C29_State ==
    aout # NotApplied =>
        IF AllRowsScore
        THEN /\ SameRowsWithPoints
             /\ \A i \in 1..Len(adf) :
                   DOMAIN aout.df[i] = DOMAIN adf[i] \cup {"fantasy_points"}
        ELSE /\ aout.err # "none"
             /\ aout.df = << >>

\* the call leaves the caller's frame as it was
C29_Step == aout' # aout => adf' = adf

\* C29, amended: the call leaves its input frame unchanged; when every row
\* scores it returns a frame with the same rows in the same order whose
\* fantasy_points column holds calculate_fantasy_points of each row, a
\* column added when the input has none of that name and replaced when it
\* has one, every other column unchanged; when a row's scoring raises, the
\* call raises.
C29_Frame == []C29_State /\ [][C29_Step]_vars

\* a frame of two rows that already has a fantasy_points column: the frame
\* returned has the same columns and other values in that column
C29_Witness ==
    /\ aout.err = "none"
    /\ Len(adf) = 2
    /\ \A i \in 1..2 :
          /\ DOMAIN aout.df[i] = DOMAIN adf[i]
          /\ aout.df[i]["fantasy_points"] # adf[i]["fantasy_points"]
    /\ aout.df[1]["fantasy_points"] # aout.df[2]["fantasy_points"]

(***************************************************************************)
(* More claims about the scoring engine, checked under SpecScore.          *)
(***************************************************************************)
\* every bucket of the table has points; its bounds are numbers or absent
WellFormedBuckets(buckets) ==
    \A i \in 1..Len(buckets) : HasKey(buckets[i], "points")

\* C30: for a numeric value and a table whose buckets all have points, a
\* bucket with neither bound included, _bucket_score returns some bucket's
\* points or 0 and never raises.
C30_Original ==
    (Called /\ PositionOf(row, pos) = "DST") =>
        \A tbl \in {"points_allowed", "yards_allowed"} :
            LET buckets == Rules["dst"][tbl]
                got == _bucket_score(_g(row, ALIAS[tbl]), buckets)
            IN  WellFormedBuckets(buckets) =>
                    /\ IsOk(got)
                    /\ got.v \in {0} \cup {buckets[i]["points"] : i \in 1..Len(buckets)}

====
